---- MODULE Spec2Model ----
(***************************************************************************)
(* The work-stealing deque of the runtime (runtime/gc/chase-lev-deque.c)   *)
(* and the local-scope wrappers over it (runtime/gc/local-scope.c).        *)
(*                                                                         *)
(* One owner calls ChaseLev_pushBot, ChaseLev_tryPopBot, ChaseLev_setDepth *)
(* and pollCurrentLocalScope; thieves call ChaseLev_tryPopTop.  Every      *)
(* __atomic access of the C code is one step of the model, so an action is *)
(* one atomic access together with the local computation up to the next    *)
(* access (or to the return).  The steps interleave under sequential       *)
(* consistency; the thread fences of the code order the accesses and have  *)
(* no step of their own.  A call that has computed its result stays at a   *)
(* "_ret" position until its caller takes the result, and its frame is     *)
(* gone after that.                                                        *)
(***************************************************************************)
EXTENDS Integers, Sequences, FiniteSets, Bags, TLC

\* #define CAP 64: the modulus of every slot index.
CAP == 64

\* uint64_t is modelled with WordBits bits (TLC's integers have 32): every
\* index computation below wraps at WORD exactly as the C code wraps at 2^64,
\* and WORD is a multiple of CAP like 2^64.
WordBits == 16
WORD == 2 ^ WordBits
U64(x) == x % WORD

\* The fail value the callers hand to the pops (local-scope.c passes
\* BOGUS_OBJPTR and compares the result with it).
BOGUS_OBJPTR == 1

\* The threads that steal: two, so that a thief races with the owner and
\* with another thief.
Thieves == {"t1", "t2"}

\* The n-th object pushed: an objptr that is not the fail value.
Obj(n) == BOGUS_OBJPTR + n

\* What a slot of the data array may hold before the deque first writes it:
\* the array is allocated outside this code, so its content is either the
\* fail value or some other word (0) that no push has stored.
UnwrittenWords == {BOGUS_OBJPTR, 0}

VARIABLES
  top,      \* *top: the shared index the thieves CAS
  bot,      \* *bot: the shared index the owner writes
  data,     \* the slots of the data array, indexed 0 .. CAP-1
  len,      \* getSequenceLength(data)
  dead,     \* DIE() has been called: the process has aborted
  ow,       \* the owner's frame: pc, arg (elem_to_push_op or desired_depth),
            \* local_bot, local_top, elem, ret (the result), and the history
            \* fields top0, bot0, data0 (the shared state when the call
            \* began) and top1, bot1 (the indices when its result was ready)
  th,       \* each thief's frame: pc, local_top, local_bot, elem, ret
  nextId,   \* history: the number of the next object to push
  ndepth,   \* history: the number of setDepth calls begun
  pushed,   \* history: the objects whose pushBot returned TRUE
  returned, \* history: the bag of non-fail values the pops have returned
  race,     \* history: the single item the deque held when the owner's
            \* current tryPopBot began
  note,     \* history: what each thief's current call has overlapped
  hist,     \* history: the last calls that returned, the latest first
  ref,      \* history: a reference deque (a sequence, bottom last) that
            \* the recorded calls are applied to
  obj,      \* the heap: the object at each address (header, chunk list and
            \* level of its chunk, slots, forwarding pointer, stack sizes)
  toSpace,  \* toSpace[i] of HM_HHC_collectLocal: NULL or the objects of the
            \* list in the order a scan of its chunks meets them
  gs,       \* what the collector reads and writes in GC_state and in the
            \* current thread
  cl,       \* the frame of HM_HHC_collectLocal
  wk,       \* the weak objects and their chain (cheney-copy.c)
  ea        \* the frame and the heap view of
            \* HM_ensureHierarchicalHeapAssurances (local-heap.c)

shared == <<top, bot, data, len, dead>>
ghost  == <<nextId, ndepth, pushed, returned, race, note, hist, ref>>
heapVars == <<obj, toSpace, gs, cl>>
gcVars == <<heapVars, wk, ea>>
vars   == <<shared, ow, th, ghost, gcVars>>

\* data + (i % CAP)
Slot(i) == i % CAP

----------------------------------------------------------------------------
\* Frames and history bookkeeping.

IdleOwner ==
  [pc |-> "idle", arg |-> 0, local_bot |-> 0, local_top |-> 0,
   elem |-> BOGUS_OBJPTR, ret |-> 0,
   top0 |-> 0, bot0 |-> 0, data0 |-> <<>>, top1 |-> 0, bot1 |-> 0]

IdleThief ==
  [pc |-> "idle", local_top |-> 0, local_bot |-> 0,
   elem |-> BOGUS_OBJPTR, ret |-> 0]

\* The owner's frame as a call begins.
Enter(pc) ==
  [IdleOwner EXCEPT !.pc = pc, !.top0 = top, !.bot0 = bot, !.data0 = data]

\* The owner's frame when the result `ret` is ready, with the shared indices
\* t1, b1 of that moment.
Done(pc, ret, t1, b1) ==
  [ow EXCEPT !.pc = pc, !.ret = ret, !.top1 = t1, !.bot1 = b1]

OwnerRetPcs == {"push_ret", "pop_ret", "depth_ret", "poll_ret"}
OwnerPushPcs == {"push_loadTop", "push_storeData", "push_storeBot"}
OwnerDepthPcs == {"depth_loadBot", "depth_storeBotFirst", "depth_storeTopLast",
                  "depth_storeTopFirst", "depth_storeBotLast"}
\* The positions of setDepth before its store to top, and from it on.
DepthTopNotStored == {"depth_loadBot", "depth_storeBotFirst",
                      "depth_storeTopLast", "depth_storeTopFirst"}
DepthTopStored == {"depth_storeBotLast", "depth_ret"}

\* Thief t is between the first access of a tryPopTop and its result.
InFlight(t) == th[t].pc \notin {"idle", "steal_ret"}

NoNote == [depth |-> FALSE, push |-> FALSE, sample |-> "no",
           race |-> FALSE, item |-> 0, took |-> FALSE]

NoRace == [on |-> FALSE, item |-> 0]

\* A finished call: who made it ("owner" or a thief), the operation, its
\* argument, its result, the shared indices when it began (for a thief: as
\* it loaded them) and when its result was ready.
Call(who, op, arg, ret, t0, b0, t1, b1) ==
  [who |-> who, op |-> op, arg |-> arg, ret |-> ret,
   top0 |-> t0, bot0 |-> b0, top1 |-> t1, bot1 |-> b1]

NoCall == Call("owner", "none", 0, 0, 0, 0, 0, 0)

\* The reference deque after a call: pushBot appends at the bottom when it
\* succeeds, tryPopBot removes the bottom element, tryPopTop the top one.
RefApply(c) ==
  CASE c.op = "push"   -> IF c.ret THEN Append(ref, c.arg) ELSE ref
    [] c.op = "popBot" -> IF ref = <<>> THEN ref ELSE SubSeq(ref, 1, Len(ref) - 1)
    [] c.op = "popTop" -> IF ref = <<>> THEN ref ELSE Tail(ref)
    [] OTHER           -> ref

\* What the reference deque answers to a pop at the bottom and at the top.
RefBot == IF ref = <<>> THEN BOGUS_OBJPTR ELSE ref[Len(ref)]
RefTop == IF ref = <<>> THEN BOGUS_OBJPTR ELSE ref[1]

\* The specifications that keep a history of calls record a call when it
\* returns to its caller (pollCurrentLocalScope, which only reads, is not
\* recorded).
Record(keep, c) ==
  IF keep /\ c.op # "poll"
    THEN hist' = <<c, hist[1], hist[2]>> /\ ref' = RefApply(c)
    ELSE UNCHANGED <<hist, ref>>

\* A pop hands `v` to its caller.
Hand(v) == returned' = IF v = BOGUS_OBJPTR THEN returned
                       ELSE returned (+) SetToBag({v})

----------------------------------------------------------------------------
\* ChaseLev_pushBot

\* A capacity test that lets one element too many in.
PushFull_strict(local_bot, local_top) == U64(local_bot - local_top) > len

\* size >= getSequenceLength(data)
PushFull(local_bot, local_top) == U64(local_bot - local_top) >= len

\* local_bot = load(bot, relaxed)
pushBot_loadBot(v) ==
  /\ ~dead /\ ow.pc = "idle"
  /\ ow' = [Enter("push_loadTop") EXCEPT !.arg = v, !.local_bot = bot]
  /\ nextId' = nextId + 1
  /\ note' = [t \in Thieves |->
                IF InFlight(t) THEN [note[t] EXCEPT !.push = TRUE] ELSE note[t]]
  /\ UNCHANGED <<gcVars, shared, th, ndepth, pushed, returned, race, hist, ref>>

\* local_top = load(top, acquire); the capacity test; return FALSE when full
pushBot_loadTop ==
  /\ ~dead /\ ow.pc = "push_loadTop"
  /\ ow' = IF PushFull(ow.local_bot, top)
             THEN [Done("push_ret", FALSE, top, bot) EXCEPT !.local_top = top]
             ELSE [ow EXCEPT !.pc = "push_storeData", !.local_top = top]
  /\ UNCHANGED <<gcVars, shared, th, ghost>>

\* store(data + (local_bot % CAP), elem_to_push, relaxed)
pushBot_storeData ==
  /\ ~dead /\ ow.pc = "push_storeData"
  /\ data' = [data EXCEPT ![Slot(ow.local_bot)] = ow.arg]
  /\ ow' = [ow EXCEPT !.pc = "push_storeBot"]
  /\ UNCHANGED <<gcVars, top, bot, len, dead, th, ghost>>

\* release fence; store(bot, local_bot + 1, relaxed); return TRUE
pushBot_storeBot ==
  /\ ~dead /\ ow.pc = "push_storeBot"
  /\ bot' = U64(ow.local_bot + 1)
  /\ ow' = Done("push_ret", TRUE, top, bot')
  /\ pushed' = pushed \cup {ow.arg}
  /\ UNCHANGED <<gcVars, top, data, len, dead, th, nextId, ndepth, returned, race, note, hist, ref>>

----------------------------------------------------------------------------
\* ChaseLev_tryPopBot

\* An emptiness test that misses the last element.
PopBotHasElem_strict(local_top, local_bot) == local_top < local_bot

\* if (local_top <= local_bot)
PopBotHasElem(local_top, local_bot) == local_top <= local_bot

\* A tryPopBot that never takes the CAS path for the last element.
PopBotLastElem_never(local_top, local_bot) == FALSE

\* if (local_top == local_bot)
PopBotLastElem(local_top, local_bot) == local_top = local_bot

\* local_bot = load(bot, relaxed) - 1
tryPopBot_loadBot ==
  /\ ~dead /\ ow.pc = "idle"
  /\ ow' = [Enter("pop_storeBot") EXCEPT !.local_bot = U64(bot - 1)]
  /\ race' = IF U64(bot - top) = 1
               THEN [on |-> TRUE, item |-> data[Slot(top)]]
               ELSE NoRace
  /\ note' = [t \in Thieves |->
                IF InFlight(t) /\ race'.on
                  THEN [note[t] EXCEPT !.race = TRUE, !.item = race'.item]
                  ELSE note[t]]
  /\ UNCHANGED <<gcVars, shared, th, nextId, ndepth, pushed, returned, hist, ref>>

\* store(bot, local_bot, release)
tryPopBot_storeBot ==
  /\ ~dead /\ ow.pc = "pop_storeBot"
  /\ bot' = ow.local_bot
  /\ ow' = [ow EXCEPT !.pc = "pop_loadTop"]
  /\ UNCHANGED <<gcVars, top, data, len, dead, th, ghost>>

\* seq-cst fence; local_top = load(top, relaxed); the emptiness test
tryPopBot_loadTop ==
  /\ ~dead /\ ow.pc = "pop_loadTop"
  /\ ow' = [ow EXCEPT !.local_top = top,
                      !.pc = IF PopBotHasElem(top, ow.local_bot)
                               THEN "pop_loadData" ELSE "pop_restoreEmpty"]
  /\ UNCHANGED <<gcVars, shared, th, ghost>>

\* elem = load(data + (local_bot % CAP), relaxed); return it unless it is the
\* last element
tryPopBot_loadData ==
  /\ ~dead /\ ow.pc = "pop_loadData"
  /\ LET e == data[Slot(ow.local_bot)] IN
       IF PopBotLastElem(ow.local_top, ow.local_bot)
         THEN /\ ow' = [ow EXCEPT !.pc = "pop_cas", !.elem = e]
              /\ UNCHANGED returned
         ELSE /\ ow' = [Done("pop_ret", e, top, bot) EXCEPT !.elem = e]
              /\ Hand(e)
  /\ UNCHANGED <<gcVars, shared, th, nextId, ndepth, pushed, race, note, hist, ref>>

\* compare_exchange(top, &local_top, local_top + 1); elem = fail_value when
\* it fails
tryPopBot_cas ==
  /\ ~dead /\ ow.pc = "pop_cas"
  /\ IF top = ow.local_top
       THEN /\ top' = U64(ow.local_top + 1)
            /\ ow' = [ow EXCEPT !.pc = "pop_restoreLast"]
       ELSE /\ ow' = [ow EXCEPT !.pc = "pop_restoreLast", !.local_top = top,
                                !.elem = BOGUS_OBJPTR]
            /\ UNCHANGED top
  /\ UNCHANGED <<gcVars, bot, data, len, dead, th, ghost>>

\* A tryPopBot that returns the last element without storing bot again.
tryPopBot_restoreLast_forgotten ==
  /\ ~dead /\ ow.pc = "pop_restoreLast"
  /\ ow' = Done("pop_ret", ow.elem, top, bot)
  /\ Hand(ow.elem)
  /\ UNCHANGED <<gcVars, shared, th, nextId, ndepth, pushed, race, note, hist, ref>>

\* store(bot, local_bot + 1, relaxed); return elem
tryPopBot_restoreLast ==
  /\ ~dead /\ ow.pc = "pop_restoreLast"
  /\ bot' = U64(ow.local_bot + 1)
  /\ ow' = Done("pop_ret", ow.elem, top, bot')
  /\ Hand(ow.elem)
  /\ UNCHANGED <<gcVars, top, data, len, dead, th, nextId, ndepth, pushed, race, note, hist, ref>>

\* store(bot, local_bot + 1, relaxed); return fail_value
tryPopBot_restoreEmpty ==
  /\ ~dead /\ ow.pc = "pop_restoreEmpty"
  /\ bot' = U64(ow.local_bot + 1)
  /\ ow' = Done("pop_ret", BOGUS_OBJPTR, top, bot')
  /\ UNCHANGED <<gcVars, top, data, len, dead, th, ghost>>

----------------------------------------------------------------------------
\* ChaseLev_tryPopTop, called by thief t

\* if (local_top < local_bot)
PopTopHasElem(local_top, local_bot) == local_top < local_bot

\* local_top = load(top, acquire)
tryPopTop_loadTop(t) ==
  /\ ~dead /\ th[t].pc = "idle"
  /\ th' = [th EXCEPT ![t] = [IdleThief EXCEPT !.pc = "steal_loadBot",
                                                !.local_top = top]]
  /\ note' = [note EXCEPT ![t] =
       [depth  |-> ow.pc \in OwnerDepthPcs /\ ow.top0 = ow.bot0,
        push   |-> ow.pc \in OwnerPushPcs,
        sample |-> IF ow.top0 # ow.bot0 THEN "no"
                   ELSE IF ow.pc \in DepthTopNotStored THEN "early"
                   ELSE IF ow.pc \in DepthTopStored THEN "late" ELSE "no",
        race   |-> race.on,
        item   |-> race.item,
        took   |-> FALSE]]
  /\ UNCHANGED <<gcVars, shared, ow, nextId, ndepth, pushed, returned, race, hist, ref>>

\* seq-cst fence; local_bot = load(bot, acquire); return fail_value when
\* the deque looks empty
tryPopTop_loadBot(t) ==
  /\ ~dead /\ th[t].pc = "steal_loadBot"
  /\ th' = [th EXCEPT ![t] =
       [@ EXCEPT !.local_bot = bot,
                 !.pc = IF PopTopHasElem(th[t].local_top, bot)
                          THEN "steal_loadData" ELSE "steal_ret",
                 !.ret = BOGUS_OBJPTR]]
  /\ UNCHANGED <<gcVars, shared, ow, ghost>>

\* elem = load(data + (local_top % CAP), relaxed)
tryPopTop_loadData(t) ==
  /\ ~dead /\ th[t].pc = "steal_loadData"
  /\ th' = [th EXCEPT ![t] = [@ EXCEPT !.pc = "steal_cas",
                                       !.elem = data[Slot(th[t].local_top)]]]
  /\ UNCHANGED <<gcVars, shared, ow, ghost>>

\* compare_exchange(top, &local_top, local_top + 1): return elem on success,
\* fail_value on failure
tryPopTop_cas(t) ==
  /\ ~dead /\ th[t].pc = "steal_cas"
  /\ IF top = th[t].local_top
       THEN /\ top' = U64(th[t].local_top + 1)
            /\ th' = [th EXCEPT ![t] = [@ EXCEPT !.pc = "steal_ret",
                                                 !.ret = th[t].elem]]
            /\ Hand(th[t].elem)
            /\ note' = [note EXCEPT ![t] = [@ EXCEPT !.took = TRUE]]
       ELSE /\ th' = [th EXCEPT ![t] = [@ EXCEPT !.pc = "steal_ret",
                                                 !.local_top = top,
                                                 !.ret = BOGUS_OBJPTR]]
            /\ UNCHANGED <<top, returned, note>>
  /\ UNCHANGED <<gcVars, bot, data, len, dead, ow, nextId, ndepth, pushed, race, hist, ref>>

----------------------------------------------------------------------------
\* ChaseLev_setDepth

\* A setDepth that never finds the deque non-empty.
DepthNonEmpty_never(local_top, local_bot) == FALSE

\* if (local_top != local_bot) DIE(...)
DepthNonEmpty(local_top, local_bot) == local_top # local_bot

\* A setDepth that orders its two stores the other way round.
BotFirst_swapped(desired_depth, local_bot) == desired_depth > local_bot

\* else if (desired_depth < local_bot): bot is moved first
BotFirst(desired_depth, local_bot) == desired_depth < local_bot

\* local_top = load(top, acquire)
setDepth_loadTop(d) ==
  /\ ~dead /\ ow.pc = "idle"
  /\ ow' = [Enter("depth_loadBot") EXCEPT !.arg = d, !.local_top = top]
  /\ ndepth' = ndepth + 1
  /\ note' = [t \in Thieves |->
                IF InFlight(t) /\ top = bot
                  THEN [note[t] EXCEPT !.depth = TRUE] ELSE note[t]]
  /\ UNCHANGED <<gcVars, shared, th, nextId, pushed, returned, race, hist, ref>>

\* local_bot = load(bot, acquire); DIE unless local_top == local_bot; return
\* when desired_depth == local_bot
setDepth_loadBot ==
  /\ ~dead /\ ow.pc = "depth_loadBot"
  /\ IF DepthNonEmpty(ow.local_top, bot)
       THEN /\ dead' = TRUE
            /\ ow' = [ow EXCEPT !.pc = "dead", !.local_bot = bot]
       ELSE /\ UNCHANGED dead
            /\ ow' = IF ow.arg = bot
                       THEN [Done("depth_ret", 0, top, bot) EXCEPT !.local_bot = bot]
                       ELSE [ow EXCEPT !.local_bot = bot,
                                       !.pc = IF BotFirst(ow.arg, bot)
                                                THEN "depth_storeBotFirst"
                                                ELSE "depth_storeTopFirst"]
  /\ UNCHANGED <<gcVars, top, bot, data, len, th, ghost>>

\* store(bot, desired_depth, seq_cst), when desired_depth < local_bot
setDepth_storeBotFirst ==
  /\ ~dead /\ ow.pc = "depth_storeBotFirst"
  /\ bot' = ow.arg
  /\ ow' = [ow EXCEPT !.pc = "depth_storeTopLast"]
  /\ UNCHANGED <<gcVars, top, data, len, dead, th, ghost>>

\* A setDepth that moves bot down and forgets top.
setDepth_storeTopLast_skipped ==
  /\ ~dead /\ ow.pc = "depth_storeTopLast"
  /\ ow' = Done("depth_ret", 0, top, bot)
  /\ UNCHANGED <<gcVars, shared, th, ghost>>

\* store(top, desired_depth, seq_cst); return
setDepth_storeTopLast ==
  /\ ~dead /\ ow.pc = "depth_storeTopLast"
  /\ top' = ow.arg
  /\ ow' = Done("depth_ret", 0, top', bot)
  /\ UNCHANGED <<gcVars, bot, data, len, dead, th, ghost>>

\* store(top, desired_depth, seq_cst), when desired_depth > local_bot
setDepth_storeTopFirst ==
  /\ ~dead /\ ow.pc = "depth_storeTopFirst"
  /\ top' = ow.arg
  /\ ow' = [ow EXCEPT !.pc = "depth_storeBotLast"]
  /\ UNCHANGED <<gcVars, bot, data, len, dead, th, ghost>>

\* store(bot, desired_depth, seq_cst); return
setDepth_storeBotLast ==
  /\ ~dead /\ ow.pc = "depth_storeBotLast"
  /\ bot' = ow.arg
  /\ ow' = Done("depth_ret", 0, top, bot')
  /\ UNCHANGED <<gcVars, top, data, len, dead, th, ghost>>

----------------------------------------------------------------------------
\* pollCurrentLocalScope: return load(bot, seq_cst)

pollCurrentLocalScope ==
  /\ ~dead /\ ow.pc = "idle"
  /\ ow' = [Enter("poll_ret") EXCEPT !.ret = bot, !.top1 = top, !.bot1 = bot]
  /\ UNCHANGED <<gcVars, shared, th, ghost>>

----------------------------------------------------------------------------
\* The return to the caller: the frame of the call is gone.

OpOf(pc) == CASE pc = "push_ret" -> "push"
              [] pc = "pop_ret" -> "popBot"
              [] pc = "depth_ret" -> "setDepth"
              [] pc = "poll_ret" -> "poll"

ownerReturn(keep) ==
  /\ ~dead /\ ow.pc \in OwnerRetPcs
  /\ Record(keep, Call("owner", OpOf(ow.pc), ow.arg, ow.ret,
                       ow.top0, ow.bot0, ow.top1, ow.bot1))
  /\ ow' = IdleOwner
  /\ race' = NoRace
  /\ note' = [t \in Thieves |->
                IF ow.pc = "depth_ret" THEN [note[t] EXCEPT !.sample = "no"]
                                       ELSE note[t]]
  /\ UNCHANGED <<gcVars, shared, th, nextId, ndepth, pushed, returned>>

thiefReturn(t, keep) ==
  /\ ~dead /\ th[t].pc = "steal_ret"
  /\ Record(keep, Call(t, "popTop", 0, th[t].ret,
                       th[t].local_top, th[t].local_bot, top, bot))
  /\ th' = [th EXCEPT ![t] = IdleThief]
  /\ note' = [note EXCEPT ![t] = NoNote]
  /\ UNCHANGED <<gcVars, shared, ow, nextId, ndepth, pushed, returned, race>>

----------------------------------------------------------------------------
\* The collector's side of the state while no collection runs.

\* A null chunk list.  A list is created when its first object is put in it,
\* so no list that exists is empty, and the empty sequence stands for NULL.
NULL == <<>>

\* struct ForwardHHObjptrArgs as HM_HHC_collectLocal initialises it (the
\* counters the initialiser does not name start at zero as well).
NoArgs ==
  [minLevel |-> 0, maxLevel |-> 0,
   bytesCopied |-> 0, objectsCopied |-> 0, stacksCopied |-> 0,
   bytesMoved |-> 0, objectsMoved |-> 0]

\* The heap and the roots as a collection found them (history).
NoPre == [obj |-> <<>>, currentThread |-> 0, data |-> <<>>]

\* The frame of HM_HHC_collectLocal: desiredScope, originalLocalScope and
\* minLevel, forwardHHObjptrArgs, globalDownPtrs, the loop variables (idx:
\* the slot a root loop is at; depth, cursor: the level and the object the
\* scan is at), and as history the 64-bit value pollCurrentLocalScope
\* returned, the exit taken and the heap the collection began on.
IdleCollect ==
  [pc |-> "idle", desiredScope |-> 0,
   polled |-> 0, originalLocalScope |-> 0, minLevel |-> 0,
   args |-> NoArgs, globalDownPtrs |-> <<>>,
   idx |-> 0, depth |-> 0, cursor |-> 0,
   path |-> "none", pre |-> NoPre]

\* GC_state and the current thread before the runtime has set them up
\* (stackUsed: what sizeofGCStateCurrentStackUsed answers; calls: history,
\* the number of calls of HM_HHC_collectLocal begun).
NoState ==
  [hhCollectionLevel |-> "NONE", registered |-> FALSE, minLocalLevel |-> 0,
   currentDepth |-> 0, currentThread |-> 0, stackUsed |-> 0, calls |-> 0,
   bytesSurvivedLastCollection |-> 0, bytesAllocatedSinceLastCollection |-> 0]

\* No weak object, and no major collection in progress.
NoWeaks == [pc |-> "idle"]

\* No call of HM_ensureHierarchicalHeapAssurances in progress.
NoAssure == [pc |-> "idle"]

\* A specification of the deque alone leaves all of this out.
NoCollector ==
  /\ obj = <<>> /\ toSpace = <<>> /\ gs = NoState /\ cl = IdleCollect
  /\ wk = NoWeaks /\ ea = NoAssure

----------------------------------------------------------------------------
\* The deque as its creator leaves it: both indices 0, CAP slots that the
\* deque has not written yet, no call in progress.

InitWith(n) ==
  /\ top = 0 /\ bot = 0
  /\ \E w \in UnwrittenWords : data = [i \in 0 .. CAP - 1 |-> w]
  /\ len = n
  /\ dead = FALSE
  /\ ow = IdleOwner
  /\ th = [t \in Thieves |-> IdleThief]
  /\ nextId = 1 /\ ndepth = 0 /\ pushed = {} /\ returned = EmptyBag
  /\ race = NoRace
  /\ note = [t \in Thieves |-> NoNote]
  /\ hist = <<NoCall, NoCall, NoCall>>
  /\ ref = <<>>

Init == InitWith(CAP) /\ NoCollector

----------------------------------------------------------------------------
\* The steps inside a call.

PushSteps == pushBot_loadTop \/ pushBot_storeData \/ pushBot_storeBot

PopBotSteps ==
  \/ tryPopBot_storeBot
  \/ tryPopBot_loadTop
  \/ tryPopBot_loadData
  \/ tryPopBot_cas
  \/ tryPopBot_restoreLast
  \/ tryPopBot_restoreEmpty

SetDepthSteps ==
  \/ setDepth_loadBot
  \/ setDepth_storeBotFirst
  \/ setDepth_storeTopLast
  \/ setDepth_storeTopFirst
  \/ setDepth_storeBotLast

PopTopSteps(t) ==
  \/ tryPopTop_loadBot(t)
  \/ tryPopTop_loadData(t)
  \/ tryPopTop_cas(t)

\* Bounds of the exploration: a pop begins only while bot is at least
\* `wrap` below the wrap-around, a steal begins only while top is below
\* `maxTop`, a pop or a steal begins only while fewer than `n` values have
\* been handed out.
PopAllowed(wrap) == bot < WORD - wrap
StealAllowed(maxTop) == top < maxTop
Taken(n) == BagCardinality(returned) < n

----------------------------------------------------------------------------
\* Spec: the owner pushes and pops, the thieves steal, in every interleaving
\* of their steps.

MaxPush == 2
MaxWrap == 1
MaxTop == 2

Next ==
  \/ nextId <= MaxPush /\ pushBot_loadBot(Obj(nextId))
  \/ PopAllowed(MaxWrap) /\ tryPopBot_loadBot
  \/ PushSteps
  \/ PopBotSteps
  \/ ownerReturn(FALSE)
  \/ \E t \in Thieves : StealAllowed(MaxTop) /\ tryPopTop_loadTop(t)
  \/ \E t \in Thieves : PopTopSteps(t)
  \/ \E t \in Thieves : thiefReturn(t, FALSE)

Spec == Init /\ [][Next]_vars

----------------------------------------------------------------------------
\* SpecDepth: the owner moves the depth of the deque with setDepth and
\* pushes, the thieves steal, in every interleaving of their steps.

MaxDepth == 1
MaxSetDepth == 2
MaxPushDepth == 1
MaxTakeDepth == 2

NextDepth ==
  \/ \E d \in 0 .. MaxDepth : ndepth < MaxSetDepth /\ setDepth_loadTop(d)
  \/ SetDepthSteps
  \/ nextId <= MaxPushDepth /\ pushBot_loadBot(Obj(nextId))
  \/ PushSteps
  \/ ownerReturn(FALSE)
  \/ \E t \in Thieves :
       StealAllowed(MaxTop) /\ Taken(MaxTakeDepth) /\ tryPopTop_loadTop(t)
  \/ \E t \in Thieves : PopTopSteps(t)
  \/ \E t \in Thieves : thiefReturn(t, FALSE)

SpecDepth == Init /\ [][NextDepth]_vars

----------------------------------------------------------------------------
\* SpecSeq: no concurrency.  A call begins only when no other call is in
\* progress, and the calls that return are recorded in hist.

OthersIdle(t) == \A u \in Thieves \ {t} : th[u].pc = "idle"
ThievesIdle == \A u \in Thieves : th[u].pc = "idle"

MaxPushSeq == 3
MaxTakeSeq == 3
MaxDepthSeq == 2
MaxSetDepthSeq == 1

NextSeq ==
  \/ ThievesIdle /\ nextId <= MaxPushSeq /\ pushBot_loadBot(Obj(nextId))
  \/ ThievesIdle /\ PopAllowed(MaxWrap) /\ Taken(MaxTakeSeq) /\ tryPopBot_loadBot
  \/ ThievesIdle /\ ndepth < MaxSetDepthSeq /\ \E d \in 0 .. MaxDepthSeq : setDepth_loadTop(d)
  \/ ThievesIdle /\ pollCurrentLocalScope
  \/ PushSteps
  \/ PopBotSteps
  \/ SetDepthSteps
  \/ ownerReturn(TRUE)
  \/ \E t \in Thieves :
       /\ ow.pc = "idle" /\ OthersIdle(t)
       /\ StealAllowed(MaxTakeSeq) /\ Taken(MaxTakeSeq)
       /\ tryPopTop_loadTop(t)
  \/ \E t \in Thieves : PopTopSteps(t)
  \/ \E t \in Thieves : thiefReturn(t, TRUE)

SpecSeq == Init /\ [][NextSeq]_vars

----------------------------------------------------------------------------
\* SpecFull: no concurrency; the owner only pushes, often enough to fill the
\* CAP slots of the deque, and the thieves take from the top.

MaxPushFull == 66
MaxStealFull == 2

NextFull ==
  \/ ThievesIdle /\ nextId <= MaxPushFull /\ pushBot_loadBot(Obj(nextId))
  \/ PushSteps
  \/ ownerReturn(FALSE)
  \/ \E t \in Thieves :
       /\ ow.pc = "idle" /\ OthersIdle(t)
       /\ StealAllowed(MaxStealFull) /\ Taken(MaxStealFull)
       /\ tryPopTop_loadTop(t)
  \/ \E t \in Thieves : PopTopSteps(t)
  \/ \E t \in Thieves : thiefReturn(t, FALSE)

SpecFull == Init /\ [][NextFull]_vars

----------------------------------------------------------------------------
\* Properties.

\* A thief whose sampled pair (local_top, local_bot) said "not empty": it is
\* between its load of bot and its CAS.
Sampled(t) == th[t].pc \in {"steal_loadData", "steal_cas"}
\* The owner is inside a setDepth that began on an empty deque, or at its
\* return.
InSetDepthOnEmpty ==
  ow.pc \in OwnerDepthPcs \cup {"depth_ret"} /\ ow.top0 = ow.bot0

\* C1: every non-fail value a pop returns was stored by an earlier successful
\* pushBot, and no pushed value is returned by more than one pop.
C1_NoInventedNoDuplicate ==
  \A v \in BagToSet(returned) : v \in pushed /\ CopiesIn(v, returned) = 1

\* C2: when the owner's tryPopBot begins on a deque holding the single item
\* x and thieves' tryPopTop calls overlap it, exactly one of the calls
\* returns x and every other one returns the fail value (a thief's call
\* that also overlaps a later pushBot may return what that push stored, but
\* never x a second time).
C2_LastItemRace ==
  /\ ow.pc = "pop_ret" /\ race.on =>
       /\ ow.ret \in {race.item, BOGUS_OBJPTR}
       /\ CopiesIn(race.item, returned) = 1
  /\ \A t \in Thieves :
       th[t].pc = "steal_ret" /\ note[t].race =>
         /\ ~note[t].push => th[t].ret \in {note[t].item, BOGUS_OBJPTR}
         /\ CopiesIn(note[t].item, returned) <= 1

\* C2 happens: the owner lost the race for the single item to a thief whose
\* call overlapped its tryPopBot.
C2_Witness ==
  /\ ow.pc = "pop_ret" /\ race.on /\ ow.ret = BOGUS_OBJPTR
  /\ \E t \in Thieves :
       th[t].pc = "steal_ret" /\ note[t].race /\ th[t].ret = race.item

\* C3: in every reachable state, the intermediate states of the calls
\* included, 0 <= bot - top <= CAP.
C3_IndexRange == 0 <= bot - top /\ bot - top <= CAP

\* C4 as stated: while setDepth(d) runs on an empty deque, every pair a
\* thief samples (top first, then bot) has bot <= top.
C4_SampleSaysEmpty ==
  \A t \in Thieves :
    note[t].sample # "no" /\ InSetDepthOnEmpty =>
      (Sampled(t) => th[t].local_bot <= th[t].local_top)

\* C4, amended: while setDepth(d) runs on an empty deque (top == bot == k),
\* a pair a thief samples has bot <= top, except that for d > k a thief whose
\* load of top precedes setDepth's store to top and whose load of bot follows
\* its store to bot gets bot == d above its top; and bot <= top holds in
\* memory at every instant of the setDepth.
C4_SampleSaysEmptyUnlessStraddled ==
  /\ InSetDepthOnEmpty => bot <= top
  /\ \A t \in Thieves :
       note[t].sample # "no" /\ InSetDepthOnEmpty /\ Sampled(t) =>
         \/ th[t].local_bot <= th[t].local_top
         \/ /\ note[t].sample = "early"
            /\ ow.arg > ow.bot0
            /\ th[t].local_bot = ow.arg
            /\ ow.pc = "depth_ret"

\* C4 happens: inside a setDepth that moved an empty deque down (d < k) a
\* thief loaded top before the store to top and bot after the store to bot.
C4_Witness ==
  \E t \in Thieves :
    /\ note[t].sample # "no" /\ th[t].pc = "steal_ret"
    /\ InSetDepthOnEmpty /\ ow.pc = "depth_ret"
    /\ ow.arg < ow.bot0
    /\ th[t].local_top = ow.bot0 /\ th[t].local_bot = ow.arg

\* C5: when setDepth(d) runs on an empty deque and the owner pushes nothing
\* during the thief's call, every tryPopTop that overlaps the setDepth
\* returns the fail value and leaves top alone, and top == bot == d when the
\* setDepth completes.
C5_OverlappingStealFails ==
  /\ \A t \in Thieves :
       th[t].pc = "steal_ret" /\ note[t].depth /\ ~note[t].push =>
         th[t].ret = BOGUS_OBJPTR /\ ~note[t].took
  /\ ow.pc = "depth_ret" /\ ow.top0 = ow.bot0 =>
       ow.top1 = ow.arg /\ ow.bot1 = ow.arg

\* C6: on an empty deque (top == bot == k, k == 0 included) tryPopBot
\* returns the fail value and leaves top and bot at k, and tryPopTop returns
\* the fail value and changes nothing.
C6_EmptyPopFails ==
  /\ ow.pc = "pop_ret" /\ ow.top0 = ow.bot0 =>
       /\ ow.ret = BOGUS_OBJPTR
       /\ top = ow.top0 /\ bot = ow.bot0 /\ data = ow.data0
  /\ \A t \in Thieves :
       th[t].pc = "steal_ret" /\ th[t].local_top = th[t].local_bot =>
         /\ th[t].ret = BOGUS_OBJPTR
         /\ top = th[t].local_top /\ bot = th[t].local_bot

C8_ReferenceSequence ==
  /\ ow.pc = "pop_ret" => ow.ret = RefBot
  /\ \A t \in Thieves : th[t].pc = "steal_ret" => th[t].ret = RefTop

\* C9 as stated: a successful pushBot(v) followed at once by tryPopBot
\* returns v and leaves top and bot as they were before the push.
C9_PushPopRestores ==
  hist[1].op = "popBot" /\ hist[2].op = "push" /\ hist[2].ret = TRUE =>
    /\ hist[1].ret = hist[2].arg
    /\ hist[1].top1 = hist[2].top0
    /\ hist[1].bot1 = hist[2].bot0

\* C9, amended: a successful pushBot(v) followed at once by tryPopBot
\* returns v; it leaves top and bot as they were before the push when the
\* deque held an item before the push, and leaves both one higher
\* (top == bot == k + 1) when the deque was empty (top == bot == k).
C9_PushPopRestoresOrAdvances ==
  hist[1].op = "popBot" /\ hist[2].op = "push" /\ hist[2].ret = TRUE =>
    /\ hist[1].ret = hist[2].arg
    /\ IF hist[2].top0 = hist[2].bot0
         THEN /\ hist[1].top1 = U64(hist[2].top0 + 1)
              /\ hist[1].bot1 = U64(hist[2].bot0 + 1)
         ELSE /\ hist[1].top1 = hist[2].top0
              /\ hist[1].bot1 = hist[2].bot0

\* C9 happens: a push on an empty deque, then a push on the deque holding
\* that item, then a tryPopBot.
C9_Witness ==
  /\ hist[1].op = "popBot" /\ hist[2].op = "push" /\ hist[2].ret = TRUE
  /\ hist[3].op = "push" /\ hist[3].ret = TRUE
  /\ hist[3].top0 = hist[3].bot0

\* C10: after setDepth(d) has completed on an empty deque,
\* pollCurrentLocalScope returns d, the next pushBot(v) succeeds and leaves
\* bot == d + 1 and top == d, and the pop that follows returns v.
C10_DepthThenPush ==
  /\ ow.pc = "poll_ret" /\ hist[1].op = "setDepth" => ow.ret = hist[1].arg
  /\ hist[1].op = "push" /\ hist[2].op = "setDepth" =>
       /\ hist[1].ret = TRUE
       /\ hist[1].bot1 = hist[2].arg + 1
       /\ hist[1].top1 = hist[2].arg
  /\ /\ hist[1].op \in {"popBot", "popTop"}
     /\ hist[2].op = "push" /\ hist[3].op = "setDepth"
     => hist[1].ret = hist[2].arg

\* C10 happens: a setDepth that moved the empty deque, a poll, a push and a
\* pop are behind us.
C10_Witness ==
  /\ hist[3].op = "setDepth" /\ hist[3].arg # hist[3].bot0
  /\ hist[2].op = "push"
  /\ hist[1].op = "popTop" /\ hist[1].ret = hist[2].arg

\* C11: setDepth(d) called when top # bot ends in the fatal abort without a
\* write to top or bot; called when top == bot it never aborts.  (top and bot
\* are those of the call's first access; only the step after it decides, and
\* nothing else aborts.)
C11_AbortIffNonEmpty ==
  [][ /\ ow.pc = "depth_loadBot" /\ ow'.pc # "depth_loadBot" =>
           IF ow.top0 # ow.bot0
             THEN /\ ow'.pc = "dead" /\ dead'
                  /\ bot = ow.bot0 /\ bot' = bot /\ top' = top
             ELSE ow'.pc # "dead" /\ ~dead'
      /\ dead' => ow'.pc = "dead" ]_vars

\* C11 happens: a setDepth that began on a deque holding an item has
\* aborted.
C11_Witness == dead /\ ow.pc = "dead" /\ ow.top0 # ow.bot0 /\ bot = ow.top0 + 1

----------------------------------------------------------------------------
\* The hierarchical heap of the worker and the forwarding engine
\* (runtime/gc/hierarchical-heap-collection.c).
\*
\* An object is a record at its address: its header, the kind of chunk list
\* its chunk is in ("root": the root heap, "hh": a level of the worker's
\* hierarchical heap, "to": a to-space list of the running collection,
\* "free": the free list) and the level of that list, whether its chunk
\* holds this object alone (mightContainMultipleObjects == FALSE), its slots,
\* its forwarding pointer (0: none), and for a stack the bytes used and
\* reserved and the answer sizeofStackShrinkReserved gives for it.  `origin`
\* is history: the address a copy was copied from.  Chunks have no capacity
\* in the model: a copy always fits in the last chunk of its list, and no
\* allocation of a chunk fails.

\* The levels of the hierarchical heap are 0 .. MaxLevel.
MaxLevel == 2

\* uint32_t, in half the bits of the model's uint64_t.
U32(x) == x % (2 ^ (WordBits \div 2))

\* The sizes of the object model, in bytes.
OBJPTR_SIZE == 8
GC_NORMAL_METADATA_SIZE == 8
GC_STACK_METADATA_SIZE == 8
\* sizeof (struct GC_stack)
sizeofGCStack == 4 * OBJPTR_SIZE

\* The addresses: word-aligned and not null, so that BOGUS_OBJPTR and the
\* other small words are no object pointers.
Addr(n) == 4 * n
isObjptr(op) == op % 4 = 0 /\ op # 0

\* The next address the allocator hands out in to-space.
NextFree(O) ==
  LET used == DOMAIN O
      m == CHOOSE a \in used : \A b \in used : b <= a
  IN m + 4

\* The containingHH of a chunk list: the hierarchical heap of the worker,
\* the sentinel of the to-space lists, or none (root heap, free list).
HH == "hh"
COPY_OBJECT_HH_VALUE == "COPY_OBJECT_HH_VALUE"
NoHH == "none"

\* An object, with what the head of the chunk list that holds its chunk
\* says: `list` is "to" when isInToSpace is set, and containingHH.
Object(header, list, level, single, fields) ==
  [header |-> header, list |-> list, level |-> level, single |-> single,
   fields |-> fields, fwd |-> 0, bytesNonObjptrs |-> 0,
   used |-> 0, reserved |-> 0, shrink |-> 0, origin |-> 0,
   containingHH |-> IF list = "hh" THEN HH
                    ELSE IF list = "to" THEN COPY_OBJECT_HH_VALUE ELSE NoHH]

\* splitHeader: the tag of a header.  The thread object is a normal object.
TagOf(header) ==
  CASE header = "GC_STACK_HEADER" -> "STACK_TAG"
    [] header = "GC_WEAK_HEADER" -> "WEAK_TAG"
    [] OTHER -> "NORMAL_TAG"

hasFwdPtr(O, p) == O[p].fwd # 0
getFwdPtr(O, p) == O[p].fwd
isObjptrInRootHeap(O, op) == O[op].list = "root"
HM_isObjptrInToSpace(O, op) == O[op].list = "to"
HM_getObjptrLevel(O, op) == O[op].level

\* A forwarding that does not follow forwarding pointers.
chaseFwdPtr_none(O, op) == op

\* while (hasFwdPtr(p)) { op = getFwdPtr(p); p = objptrToPointer(op, NULL); }
RECURSIVE chaseFwdPtr(_, _)
chaseFwdPtr(O, op) ==
  IF hasFwdPtr(O, op) THEN chaseFwdPtr(O, getFwdPtr(O, op)) ELSE op

\* getStackCurrentObjptr(s): the stack of the current thread.
getStackCurrentObjptr(O, currentThread) == O[currentThread].fields[1]

\* The policy that sizes a stack's reserve is not part of this code: the
\* model gives every stack the answer the policy has for it.
sizeofStackShrinkReserved(stack, current) == stack.shrink

\* A computeObjectCopyParameters that takes whatever the policy answers.
ShrinkReserved_always(reservedNew, reserved) == TRUE

\* if (reservedNew < stack->reserved)
ShrinkReserved(reservedNew, reserved) == reservedNew < reserved

\* computeObjectCopyParameters for the object `o`; `current` says whether it
\* is the stack of the current thread.  `reserved` is stack->reserved as the
\* call leaves it; `die` is the fatal exit on a weak object.
computeObjectCopyParameters(o, current) ==
  LET tag == TagOf(o.header) IN
    IF tag = "WEAK_TAG"
      THEN [tag |-> tag, die |-> TRUE, metaDataSize |-> 0,
            objectSize |-> 0, copySize |-> 0, reserved |-> o.reserved]
    ELSE IF tag = "NORMAL_TAG"
      THEN LET size == o.bytesNonObjptrs + Len(o.fields) * OBJPTR_SIZE IN
             [tag |-> tag, die |-> FALSE,
              metaDataSize |-> GC_NORMAL_METADATA_SIZE,
              objectSize |-> size + GC_NORMAL_METADATA_SIZE,
              copySize |-> size + GC_NORMAL_METADATA_SIZE,
              reserved |-> o.reserved]
    ELSE LET reservedNew == sizeofStackShrinkReserved(o, current)
             reserved == IF ShrinkReserved(reservedNew, o.reserved)
                           THEN reservedNew ELSE o.reserved
         IN [tag |-> tag, die |-> FALSE,
             metaDataSize |-> GC_STACK_METADATA_SIZE,
             objectSize |-> sizeofGCStack + reserved + GC_STACK_METADATA_SIZE,
             copySize |-> sizeofGCStack + o.used + GC_STACK_METADATA_SIZE,
             reserved |-> reserved]

\* A forwarding that lets every level through.
Entangled_never(level, maxLevel) == FALSE

\* if (opInfo.level > args->maxLevel) DIE("entanglement detected ...")
Entangled(level, maxLevel) == level > maxLevel

\* A forwarding that takes every chunk for one that holds several objects.
SingleObjectChunk_never(o) == FALSE

\* if (!HM_getChunkOf(p)->mightContainMultipleObjects)
SingleObjectChunk(o) == o.single

\* A forwarding that puts every copy in the list of the deepest level.
TargetLevel_max(level, maxLevel) == maxLevel

\* args->toSpace[opInfo.level]
TargetLevel(level, maxLevel) == level

\* A to-space list created for the hierarchical heap itself.
HM_newChunkList_ofHH(level) == HH

\* HM_newChunkList(COPY_OBJECT_HH_VALUE, opInfo.level): the containingHH of
\* the list args->toSpace[level], set when the list is created.
HM_newChunkList(level) == COPY_OBJECT_HH_VALUE

\* A forwarding that leaves every slot and the heap as they are.
forwardHHObjptr_keep(O, TS, A, op, cur) ==
  [obj |-> O, toSpace |-> TS, args |-> A, op |-> op, die |-> FALSE]

\* forwardHHObjptr(s, opp, args) on a slot that holds `op`, in the heap O with
\* the to-space lists TS and the arguments A; `cur` is the stack of the
\* current thread.  The result is the heap, the lists and the arguments after
\* the call, what the slot holds after it, and whether the call ended in
\* DIE.
forwardHHObjptr(O, TS, A, op, cur) ==
  LET same == [obj |-> O, toSpace |-> TS, args |-> A, op |-> op, die |-> FALSE]
  IN
  IF ~isObjptr(op) \/ isObjptrInRootHeap(O, op) THEN same
  ELSE IF Entangled(O[op].level, A.maxLevel) THEN [same EXCEPT !.die = TRUE]
  ELSE IF O[op].level < A.minLevel THEN same
  ELSE
    LET q == chaseFwdPtr(O, op) IN
    IF HM_getObjptrLevel(O, q) < A.minLevel \/ HM_isObjptrInToSpace(O, q)
      THEN [same EXCEPT !.op = q]
    ELSE
      LET par == computeObjectCopyParameters(O[q], q = cur)
          lvl == TargetLevel(O[op].level, A.maxLevel)
          tgt == IF TS[lvl] = NULL THEN <<>> ELSE TS[lvl]
          A1  == IF par.tag = "STACK_TAG"
                   THEN [A EXCEPT !.stacksCopied = @ + 1] ELSE A
          new == NextFree(O)
      IN
      IF par.die THEN [same EXCEPT !.die = TRUE]
      ELSE IF SingleObjectChunk(O[q])
        THEN [obj |-> [O EXCEPT ![q].list = "to", ![q].level = lvl,
                                ![q].containingHH = HM_newChunkList(lvl),
                                ![q].reserved = par.reserved],
              toSpace |-> [TS EXCEPT ![lvl] = Append(tgt, q)],
              args |-> [A1 EXCEPT !.bytesMoved = @ + par.copySize,
                                  !.objectsMoved = @ + 1],
              op |-> op, die |-> FALSE]
        ELSE [obj |-> (new :> [O[q] EXCEPT !.list = "to", !.level = lvl,
                                           !.containingHH = HM_newChunkList(lvl),
                                           !.single = FALSE, !.origin = q,
                                           !.reserved = par.reserved])
                      @@ [O EXCEPT ![q].fwd = new,
                                   ![q].reserved = par.reserved],
              toSpace |-> [TS EXCEPT ![lvl] = Append(tgt, new)],
              args |-> [A1 EXCEPT !.bytesCopied = @ + par.copySize,
                                  !.objectsCopied = @ + 1],
              op |-> new, die |-> FALSE]

----------------------------------------------------------------------------
\* HM_HHC_collectLocal(desiredScope, force), run by the owner of the deque.
\* A step is one access of the deque, or one call of forwardHHObjptr on one
\* slot together with the loop control around it (a slot of the deque that
\* holds no object pointer is passed over, since the call returns at once).

\* The slots of an object, as (object, index) pairs.
SlotsOf(O, a) == {<<a, i>> : i \in 1 .. Len(O[a].fields)}

\* The remembered down-pointers HM_deferredPromote hands back: the entries
\* (dst, field, src) for the slots of root-heap objects that point into the
\* levels minLevel .. maxLevel of the hierarchical heap.  (Down-pointers
\* inside the hierarchical heap are promoted away before a collection; the
\* heaps of the model hold none.)
GlobalDownPtrs(O, A) ==
  {e \in UNION {SlotsOf(O, a) : a \in {b \in DOMAIN O : O[b].list = "root"}} :
     LET src == O[e[1]].fields[e[2]] IN
       /\ isObjptr(src) /\ O[src].list = "hh"
       /\ A.minLevel <= O[src].level /\ O[src].level <= A.maxLevel}

RECURSIVE SlotSeq(_)
SlotSeq(S) ==
  IF S = {} THEN <<>>
  ELSE LET e == CHOOSE x \in S :
                  \A y \in S : x[1] * CAP + x[2] <= y[1] * CAP + y[2]
       IN <<e>> \o SlotSeq(S \ {e})

HM_deferredPromote(O, A) == SlotSeq(GlobalDownPtrs(O, A))

\* The first slot of the deque at or after k that holds an object pointer
\* (CAP when there is none).
RECURSIVE NextPointerSlot(_)
NextPointerSlot(k) ==
  IF k >= CAP \/ isObjptr(data[k]) THEN k ELSE NextPointerSlot(k + 1)

\* A claim loop that does not look at the scope it was asked for.
ClaimMore_ignoringScope == cl.minLevel > gs.minLocalLevel

\* A claim loop that goes on while the claims succeed.
ClaimMore_always == TRUE

\* The claim loop goes on: minLevel > desiredScope && minLevel >
\* s->controls->hhConfig.minLocalLevel (&& tryClaimLocalScope(s)).
ClaimMore ==
  cl.minLevel > cl.desiredScope /\ cl.minLevel > gs.minLocalLevel

\* releaseLocalScope(s, originalLocalScope)
ReleaseTo(frame) == frame.originalLocalScope

\* DIE inside the collection.
Die == dead' = TRUE /\ cl' = [cl EXCEPT !.pc = "dead"]

\* The three tests that skip the collection, without a claim and without a
\* release; else on to the poll.
collectLocal_enter(desiredScope, force) ==
  /\ ~dead /\ cl.pc = "idle" /\ ow.pc = "idle"
  /\ cl' = [IdleCollect EXCEPT
              !.desiredScope = desiredScope,
              !.pc = IF \/ gs.hhCollectionLevel = "NONE"
                        \/ ~gs.registered
                        \/ ~force /\ gs.currentDepth <= 1
                       THEN "cl_ret" ELSE "cl_poll",
              !.path = "skipped"]
  /\ gs' = [gs EXCEPT !.calls = @ + 1]
  /\ UNCHANGED <<shared, ow, th, ghost, obj, toSpace, wk, ea>>

\* uint32_t originalLocalScope = pollCurrentLocalScope(s); minLevel =
\* originalLocalScope (the read of *top before it is only logged)
collectLocal_poll ==
  /\ ~dead /\ cl.pc = "cl_poll"
  /\ cl' = [cl EXCEPT !.pc = "cl_claim", !.polled = bot,
                      !.originalLocalScope = U32(bot), !.minLevel = U32(bot)]
  /\ UNCHANGED <<shared, ow, th, ghost, obj, toSpace, gs, wk, ea>>

\* tryClaimLocalScope(s): ChaseLev_tryPopBot with BOGUS_OBJPTR as its fail
\* value, begun while the loop condition holds
tryClaimLocalScope ==
  /\ cl.pc = "cl_claim" /\ ClaimMore
  /\ tryPopBot_loadBot

\* the claim has returned: minLevel-- when it is not BOGUS_OBJPTR, else the
\* loop ends
collectLocal_claimed ==
  /\ ~dead /\ cl.pc = "cl_claim" /\ ow.pc = "pop_ret"
  /\ cl' = IF ow.ret # BOGUS_OBJPTR
             THEN [cl EXCEPT !.minLevel = U32(cl.minLevel - 1)]
             ELSE [cl EXCEPT !.pc = "cl_check"]
  /\ ow' = IdleOwner
  /\ race' = NoRace
  /\ UNCHANGED <<shared, th, nextId, ndepth, pushed, returned, note, hist, ref,
                 obj, toSpace, gs, wk, ea>>

\* After the loop: the two tests that go to unlock_local_scope_and_return;
\* else the collection begins: the used bytes of the current stack are set,
\* forwardHHObjptrArgs is initialised (minLevel is raised to the current
\* depth under SUPERLOCAL), HM_deferredPromote runs and toSpace[] is cleared.
collectLocal_begin ==
  /\ ~dead
  /\ \/ cl.pc = "cl_claim" /\ ow.pc = "idle" /\ ~ClaimMore
     \/ cl.pc = "cl_check"
  /\ IF cl.minLevel = 0
       THEN /\ cl' = [cl EXCEPT !.pc = "cl_unlock", !.path = "rootHeap"]
            /\ UNCHANGED <<obj, toSpace>>
     ELSE IF cl.minLevel > gs.currentDepth
       THEN /\ cl' = [cl EXCEPT !.pc = "cl_unlock", !.path = "deeper"]
            /\ UNCHANGED <<obj, toSpace>>
     ELSE
       LET stack == getStackCurrentObjptr(obj, gs.currentThread)
           O == [obj EXCEPT ![stack].used = gs.stackUsed]
           A == [NoArgs EXCEPT
                   !.minLevel = IF gs.hhCollectionLevel = "SUPERLOCAL"
                                  THEN gs.currentDepth ELSE cl.minLevel,
                   !.maxLevel = gs.currentDepth]
       IN /\ obj' = O
          /\ toSpace' = [i \in 0 .. MaxLevel |-> NULL]
          /\ cl' = [cl EXCEPT
                      !.pc = "cl_stack", !.idx = 1, !.args = A,
                      !.globalDownPtrs = HM_deferredPromote(O, A),
                      !.path = "collecting",
                      !.pre = [obj |-> O, currentThread |-> gs.currentThread,
                               data |-> data]]
  /\ UNCHANGED <<shared, ow, th, ghost, gs, wk, ea>>

\* The state after forwardHHObjptr has returned `r` for a slot of the heap:
\* the slot (object a, index i) holds r.op.
StoreField(r, a, i) == [r.obj EXCEPT ![a].fields[i] = r.op]

\* foreachObjptrInObject over an object that is a root (the current stack,
\* then the current thread): forwardHHObjptr on its slot cl.idx, or on to `next`
\* after the last slot.
ForwardRootObject(a, next) ==
  IF cl.idx > Len(obj[a].fields)
    THEN /\ cl' = [cl EXCEPT !.pc = next, !.idx = 1]
         /\ UNCHANGED <<obj, toSpace, dead>>
    ELSE LET r == forwardHHObjptr(obj, toSpace, cl.args, obj[a].fields[cl.idx],
                                  getStackCurrentObjptr(obj, gs.currentThread))
         IN IF r.die
              THEN Die /\ UNCHANGED <<obj, toSpace>>
              ELSE /\ obj' = StoreField(r, a, cl.idx)
                   /\ toSpace' = r.toSpace
                   /\ cl' = [cl EXCEPT !.idx = @ + 1, !.args = r.args]
                   /\ UNCHANGED dead

\* forward contents of stack
collectLocal_forwardStack ==
  /\ ~dead /\ cl.pc = "cl_stack"
  /\ ForwardRootObject(getStackCurrentObjptr(obj, gs.currentThread), "cl_thread")
  /\ UNCHANGED <<top, bot, data, len, ow, th, ghost, gs, wk, ea>>

\* forward contents of thread (hence including stack)
collectLocal_forwardThread ==
  /\ ~dead /\ cl.pc = "cl_thread"
  /\ ForwardRootObject(gs.currentThread, "cl_current")
  /\ UNCHANGED <<top, bot, data, len, ow, th, ghost, gs, wk, ea>>

\* forward thread itself: forwardHHObjptr(s, &(s->currentThread), ...)
collectLocal_forwardCurrentThread ==
  /\ ~dead /\ cl.pc = "cl_current"
  /\ LET r == forwardHHObjptr(obj, toSpace, cl.args, gs.currentThread,
                              getStackCurrentObjptr(obj, gs.currentThread))
     IN IF r.die
          THEN Die /\ UNCHANGED <<obj, toSpace, gs>>
          ELSE /\ obj' = r.obj /\ toSpace' = r.toSpace
               /\ gs' = [gs EXCEPT !.currentThread = r.op]
               /\ cl' = [cl EXCEPT !.pc = "cl_deque", !.idx = 0, !.args = r.args]
               /\ UNCHANGED dead
  /\ UNCHANGED <<top, bot, data, len, ow, th, ghost, wk, ea>>

\* forward contents of deque: the next slot of s->wsQueue that holds an
\* object pointer
collectLocal_forwardDeque ==
  /\ ~dead /\ cl.pc = "cl_deque"
  /\ LET k == NextPointerSlot(cl.idx) IN
       IF k >= CAP
         THEN /\ cl' = [cl EXCEPT !.pc = "cl_downptrs", !.idx = 1]
              /\ UNCHANGED <<obj, toSpace, data, dead>>
         ELSE LET r == forwardHHObjptr(obj, toSpace, cl.args, data[k],
                                       getStackCurrentObjptr(obj, gs.currentThread))
              IN IF r.die
                   THEN Die /\ UNCHANGED <<obj, toSpace, data>>
                   ELSE /\ obj' = r.obj /\ toSpace' = r.toSpace
                        /\ data' = [data EXCEPT ![k] = r.op]
                        /\ cl' = [cl EXCEPT !.idx = k + 1, !.args = r.args]
                        /\ UNCHANGED dead
  /\ UNCHANGED <<top, bot, len, ow, th, ghost, gs, wk, ea>>

\* HM_foreachRemembered(s, globalDownPtrs, forwardDownPtr, ...): forwardDownPtr
\* on the next entry (dst, field, src): forward src, then *field = src
collectLocal_forwardDownPtr ==
  /\ ~dead /\ cl.pc = "cl_downptrs"
  /\ IF cl.idx > Len(cl.globalDownPtrs)
       THEN /\ cl' = [cl EXCEPT !.pc = "cl_scan", !.depth = gs.currentDepth,
                                !.cursor = 1, !.idx = 1]
            /\ UNCHANGED <<obj, toSpace, dead>>
       ELSE LET e == cl.globalDownPtrs[cl.idx]
                r == forwardHHObjptr(obj, toSpace, cl.args, obj[e[1]].fields[e[2]],
                                     getStackCurrentObjptr(obj, gs.currentThread))
            IN IF r.die
                 THEN Die /\ UNCHANGED <<obj, toSpace>>
                 ELSE /\ obj' = StoreField(r, e[1], e[2])
                      /\ toSpace' = r.toSpace
                      /\ cl' = [cl EXCEPT !.idx = @ + 1, !.args = r.args]
                      /\ UNCHANGED dead
  /\ UNCHANGED <<top, bot, data, len, ow, th, ghost, gs, wk, ea>>

\* skipStackAndThreadObjptrPredicate: FALSE for a stack and for a thread
skipStackAndThreadObjptrPredicate(o) ==
  o.header \notin {"GC_STACK_HEADER", "GC_THREAD_HEADER"}

\* do copy-collection: depth goes from the current depth down to minLevel,
\* and HM_forwardHHObjptrsInChunkList walks the objects of toSpace[depth],
\* the ones the walk itself appends included, calling forwardHHObjptr on
\* every slot of the objects the predicate lets through.
collectLocal_scan ==
  /\ ~dead /\ cl.pc = "cl_scan"
  /\ LET list == toSpace[cl.depth] IN
       IF list = NULL \/ cl.cursor > Len(list)
         THEN /\ cl' = IF cl.depth > cl.args.minLevel
                         THEN [cl EXCEPT !.depth = @ - 1, !.cursor = 1, !.idx = 1]
                         ELSE [cl EXCEPT !.pc = "cl_merge"]
              /\ UNCHANGED <<obj, toSpace, dead>>
       ELSE LET a == list[cl.cursor] IN
         IF ~skipStackAndThreadObjptrPredicate(obj[a]) \/ cl.idx > Len(obj[a].fields)
           THEN /\ cl' = [cl EXCEPT !.cursor = @ + 1, !.idx = 1]
                /\ UNCHANGED <<obj, toSpace, dead>>
           ELSE LET r == forwardHHObjptr(obj, toSpace, cl.args, obj[a].fields[cl.idx],
                                         getStackCurrentObjptr(obj, gs.currentThread))
                IN IF r.die
                     THEN Die /\ UNCHANGED <<obj, toSpace>>
                     ELSE /\ obj' = StoreField(r, a, cl.idx)
                          /\ toSpace' = r.toSpace
                          /\ cl' = [cl EXCEPT !.idx = @ + 1, !.args = r.args]
                          /\ UNCHANGED dead
  /\ UNCHANGED <<top, bot, data, len, ow, th, ghost, gs, wk, ea>>

\* A list of the hierarchical heap in the levels under collection.
InRange(o, A, currentDepth) ==
  o.list = "hh" /\ A.minLevel <= o.level /\ o.level <= currentDepth

\* Statistics that count the copied bytes only.
Survived_copiedOnly(A) == A.bytesCopied

\* forwardHHObjptrArgs.bytesMoved + forwardHHObjptrArgs.bytesCopied
Survived(A) == A.bytesMoved + A.bytesCopied

\* A merge that adopts the to-space lists with their flags as they are.
MergedIn_flagsKept(o) == o

\* merge in toSpace: HM_HH_LEVEL(hh, i) = toSpace[i];
\* toSpace[i]->containingHH = hh; toSpace[i]->isInToSpace = FALSE
MergedIn(o) == [o EXCEPT !.containingHH = HH, !.list = "hh"]

\* Free old chunks (the levels minLevel .. currentDepth go to the free
\* list), merge in toSpace (toSpace[i] becomes level i of the hierarchical
\* heap), and the statistics of the thread.
collectLocal_merge ==
  /\ ~dead /\ cl.pc = "cl_merge"
  /\ obj' = [a \in DOMAIN obj |->
               IF InRange(obj[a], cl.args, gs.currentDepth)
                 THEN [obj[a] EXCEPT !.list = "free"]
               ELSE IF obj[a].list = "to"
                 THEN MergedIn(obj[a])
               ELSE obj[a]]
  /\ gs' = [gs EXCEPT
              !.bytesSurvivedLastCollection = Survived(cl.args),
              !.bytesAllocatedSinceLastCollection = 0]
  /\ cl' = [cl EXCEPT !.pc = "cl_unlock", !.path = "completed"]
  /\ UNCHANGED <<shared, ow, th, ghost, toSpace, wk, ea>>

\* unlock_local_scope_and_return: releaseLocalScope(s, originalLocalScope)
\* stores its argument to bot
releaseLocalScope ==
  /\ ~dead /\ cl.pc = "cl_unlock"
  /\ bot' = ReleaseTo(cl)
  /\ cl' = [cl EXCEPT !.pc = "cl_ret"]
  /\ UNCHANGED <<top, data, len, dead, ow, th, ghost, obj, toSpace, gs, wk, ea>>

\* return: the frame is gone
collectLocal_return ==
  /\ ~dead /\ cl.pc = "cl_ret"
  /\ cl' = IdleCollect
  /\ UNCHANGED <<shared, ow, th, ghost, obj, toSpace, gs, wk, ea>>

CollectSteps ==
  \/ collectLocal_poll
  \/ tryClaimLocalScope
  \/ collectLocal_claimed
  \/ collectLocal_begin
  \/ collectLocal_forwardStack
  \/ collectLocal_forwardThread
  \/ collectLocal_forwardCurrentThread
  \/ collectLocal_forwardDeque
  \/ collectLocal_forwardDownPtr
  \/ collectLocal_scan
  \/ collectLocal_merge
  \/ releaseLocalScope

----------------------------------------------------------------------------
\* The heaps a collection is run on.
\*
\* The current thread and its stack are created together at level 0 or 1
\* (initThreadAndHeap in init-world.c is called with these two levels); a
\* stack that has grown since lies at the depth the thread had then.  The
\* thread object holds one object pointer, its stack, and only
\* s->currentThread points to the thread object.  A root-heap object and the
\* data objects of the hierarchical heap, at the levels 1 .. MaxLevel,
\* complete the heap.

StackAddr == Addr(1)
ThreadAddr == Addr(2)
GlobalAddr == Addr(3)
DataAddr(n) == Addr(3 + n)

\* A stack with one frame slot in use, a reserve of three slots, and a policy
\* that would shrink the reserve to two slots.
StackObject(level, single, slot) ==
  [Object("GC_STACK_HEADER", "hh", level, single, <<slot>>) EXCEPT
     !.reserved = 3 * OBJPTR_SIZE, !.shrink = 2 * OBJPTR_SIZE]

ThreadObject(level) ==
  Object("GC_THREAD_HEADER", "hh", level, FALSE, <<StackAddr>>)

DataObject(level, single, slot) ==
  Object("GC_NORMAL_HEADER", "hh", level, single, <<slot>>)

\* The hierarchy of the data objects: none points to a deeper level of the
\* worker's heap.  A pointer to a level beyond the current depth is an
\* entanglement; the heaps hold one only in an object of the current depth.
Hierarchical(O, currentDepth) ==
  \A a \in DOMAIN O :
    O[a].header = "GC_NORMAL_HEADER" /\ O[a].list = "hh" =>
      \A i \in 1 .. Len(O[a].fields) :
        LET v == O[a].fields[i] IN
          isObjptr(v) /\ O[v].list = "hh" =>
            \/ O[v].level <= O[a].level
            \/ O[v].level > currentDepth /\ O[a].level = currentDepth

\* The runtime state of a worker at `depth` whose deque is registered, and
\* that has allocated since its last collection.
StateAt(mode, depth, minLocalLevel) ==
  [NoState EXCEPT !.hhCollectionLevel = mode, !.registered = TRUE,
                  !.minLocalLevel = minLocalLevel, !.currentDepth = depth,
                  !.currentThread = ThreadAddr, !.stackUsed = OBJPTR_SIZE,
                  !.bytesAllocatedSinceLastCollection = OBJPTR_SIZE]


\* SpecGC begins when the worker at depth cd has set the depth of its deque
\* to cd - n and pushed n (0 or 1) tasks, the first data object: bot == cd.
InitGC ==
  \E cd \in 1 .. MaxLevel, n \in 0 .. 1,
     mode \in {"LOCAL", "SUPERLOCAL"},
     tl \in 0 .. 1, sgrown \in BOOLEAN, ssingle \in BOOLEAN,
     x \in {BOGUS_OBJPTR, DataAddr(1)}, g \in {BOGUS_OBJPTR, DataAddr(2)},
     l1 \in 1 .. MaxLevel, l2 \in 1 .. MaxLevel, single1 \in BOOLEAN,
     f1 \in {BOGUS_OBJPTR, DataAddr(2)}, f2 \in {BOGUS_OBJPTR, DataAddr(1)} :
    LET O == (StackAddr :> StackObject(IF sgrown THEN cd ELSE tl, ssingle, x))
             @@ (ThreadAddr :> ThreadObject(tl))
             @@ (GlobalAddr :> Object("GC_NORMAL_HEADER", "root", 0, FALSE, <<g>>))
             @@ (DataAddr(1) :> DataObject(l1, single1, f1))
             @@ (DataAddr(2) :> [DataObject(l2, FALSE, f2) EXCEPT
                                   !.bytesNonObjptrs = OBJPTR_SIZE])
    IN
    /\ Hierarchical(O, cd)
    /\ sgrown => tl < cd
    /\ obj = O
    /\ toSpace = [i \in 0 .. MaxLevel |-> NULL]
    /\ gs = StateAt(mode, cd, 1)
    /\ cl = IdleCollect /\ wk = NoWeaks /\ ea = NoAssure
    /\ top = cd - n /\ bot = cd
    /\ data = [i \in 0 .. CAP - 1 |->
                 IF cd - n <= i /\ i < cd THEN DataAddr(1) ELSE BOGUS_OBJPTR]
    /\ len = CAP /\ dead = FALSE
    /\ ow = IdleOwner /\ th = [t \in Thieves |-> IdleThief]
    /\ nextId = 1 /\ ndepth = 0 /\ pushed = {} /\ returned = EmptyBag
    /\ race = NoRace /\ note = [t \in Thieves |-> NoNote]
    /\ hist = <<NoCall, NoCall, NoCall>> /\ ref = <<>>

\* The calls of HM_HHC_collectLocal, and the desired scopes it is called
\* with: 1 .. MaxScope (with minLocalLevel == 1 a desired scope of 0 claims
\* what a desired scope of 1 claims).
MaxCollect == 1
MaxScope == 2

NextGC ==
  \/ \E desiredScope \in 1 .. MaxScope, force \in BOOLEAN :
       gs.calls < MaxCollect /\ collectLocal_enter(desiredScope, force)
  \/ CollectSteps
  \/ PopBotSteps
  \/ collectLocal_return

SpecGC == InitGC /\ [][NextGC]_vars

----------------------------------------------------------------------------
\* The object pointer the next step of the collection passes to
\* forwardHHObjptr (0 when the next step forwards nothing).

SlotOr0(O, a, i) == IF i <= Len(O[a].fields) THEN O[a].fields[i] ELSE 0

Pending ==
  CASE cl.pc = "cl_stack" ->
         SlotOr0(obj, getStackCurrentObjptr(obj, gs.currentThread), cl.idx)
    [] cl.pc = "cl_thread" -> SlotOr0(obj, gs.currentThread, cl.idx)
    [] cl.pc = "cl_current" -> gs.currentThread
    [] cl.pc = "cl_deque" ->
         IF NextPointerSlot(cl.idx) < CAP THEN data[NextPointerSlot(cl.idx)] ELSE 0
    [] cl.pc = "cl_downptrs" ->
         IF cl.idx <= Len(cl.globalDownPtrs)
           THEN obj[cl.globalDownPtrs[cl.idx][1]].fields[cl.globalDownPtrs[cl.idx][2]]
           ELSE 0
    [] cl.pc = "cl_scan" ->
         IF cl.cursor <= Len(toSpace[cl.depth])
              /\ skipStackAndThreadObjptrPredicate(obj[toSpace[cl.depth][cl.cursor]])
           THEN SlotOr0(obj, toSpace[cl.depth][cl.cursor], cl.idx)
           ELSE 0
    [] OTHER -> 0

\* The referent of the next forwarded slot is an object of the hierarchical
\* heap.
PendingInHH == isObjptr(Pending) /\ obj[Pending].list = "hh"

----------------------------------------------------------------------------
\* C14: forwardHHObjptr on a slot whose referent is a hierarchical-heap
\* object of a level above maxLevel ends in the fatal abort, and the heap,
\* the to-space lists, the roots and the counters of the collection are what
\* they were: nothing is copied, no list is created, no slot is rewritten.
C14_EntanglementDies ==
  [][PendingInHH /\ obj[Pending].level > cl.args.maxLevel =>
       /\ dead' /\ cl'.pc = "dead"
       /\ obj' = obj /\ toSpace' = toSpace /\ data' = data
       /\ gs' = gs /\ cl'.args = cl.args]_vars

\* The abort, after an object has been copied and a list created.
C14_Witness ==
  /\ cl.pc = "dead"
  /\ cl.args.objectsCopied > 0
  /\ \E i \in DOMAIN toSpace : toSpace[i] # NULL

----------------------------------------------------------------------------
\* The objects on the to-space lists.
RECURSIVE Members(_)
Members(list) ==
  IF list = <<>> THEN {} ELSE {Head(list)} \cup Members(Tail(list))

InToSpace(TS) == UNION {Members(TS[i]) : i \in DOMAIN TS}

\* The referent of the next forwarded slot lies in a single-object chunk of
\* the levels under collection (still on its source list, or moved to its
\* to-space list by an earlier slot).
PendingSingle ==
  /\ isObjptr(Pending)
  /\ obj[Pending].list \in {"hh", "to"}
  /\ obj[Pending].single
  /\ cl.args.minLevel <= obj[Pending].level
  /\ obj[Pending].level <= cl.args.maxLevel

\* C15: forwarding a slot whose referent is an in-range object in a
\* single-object chunk allocates nothing, installs no forwarding pointer and
\* rewrites no slot (the address of the object stays); the first slot that
\* reaches the object takes its chunk off the source list and puts it on the
\* to-space list of its level, and objectsMoved grows by one; a later slot
\* changes nothing; objectsCopied is not changed.  After the merge the
\* moved objects are in the list of their level of the hierarchical heap,
\* and objectsMoved is their number.
C15_SingleObjectChunkMoved ==
  /\ [][PendingSingle =>
          LET p == Pending
              lvl == obj[p].level
          IN /\ ~dead'
             /\ data' = data /\ gs'.currentThread = gs.currentThread
             /\ cl'.args.objectsCopied = cl.args.objectsCopied
             /\ IF obj[p].list = "hh"
                  THEN /\ obj' = [obj EXCEPT ![p].list = "to",
                                             ![p].containingHH = COPY_OBJECT_HH_VALUE,
                                             ![p].reserved = obj'[p].reserved]
                       /\ toSpace' = [toSpace EXCEPT ![lvl] = Append(@, p)]
                       /\ cl'.args.objectsMoved = cl.args.objectsMoved + 1
                  ELSE /\ obj' = obj /\ toSpace' = toSpace
                       /\ cl'.args = cl.args]_vars
  /\ [](cl.path = "completed" =>
          LET moved == {a \in InToSpace(toSpace) \cap DOMAIN cl.pre.obj :
                          cl.pre.obj[a].single} IN
            /\ \A a \in moved :
                 /\ obj[a].list = "hh" /\ obj[a].fwd = 0
                 /\ obj[a].level = cl.pre.obj[a].level
                 /\ a \in Members(toSpace[obj[a].level])
            /\ cl.args.objectsMoved = Cardinality(moved))

\* A completed collection that moved the data object in a single-object
\* chunk, which the stack and the deque both pointed to, and copied others.
C15_Witness ==
  /\ cl.path = "completed"
  /\ cl.pre.obj[DataAddr(1)].single
  /\ DataAddr(1) \in InToSpace(toSpace)
  /\ cl.pre.obj[StackAddr].fields[1] = DataAddr(1)
  /\ \E k \in DOMAIN cl.pre.data : cl.pre.data[k] = DataAddr(1)
  /\ cl.args.objectsCopied > 0

----------------------------------------------------------------------------
\* The survivors of a collection are the objects on the to-space lists.
\* ObjectBytes is the size of an object, CopyBytes the bytes a copy of it
\* takes along (they differ for a stack: reserved against used).

RECURSIVE Sum(_, _)
Sum(f, S) ==
  IF S = {} THEN 0
  ELSE LET x == CHOOSE y \in S : TRUE IN f[x] + Sum(f, S \ {x})

IsCurrentStack(a) == a = getStackCurrentObjptr(obj, gs.currentThread)

ObjectBytes == [a \in DOMAIN obj |->
                  computeObjectCopyParameters(obj[a], IsCurrentStack(a)).objectSize]

CopyBytes == [a \in DOMAIN obj |->
                computeObjectCopyParameters(obj[a], IsCurrentStack(a)).copySize]

Lengths == [i \in DOMAIN toSpace |-> Len(toSpace[i])]

\* C16 as stated: after a completed collection bytesSurvivedLastCollection
\* is bytesMoved + bytesCopied and is the sum of the sizes of the survivors,
\* each counted once, and bytesAllocatedSinceLastCollection is 0.
C16_SurvivedIsSumOfSizes ==
  cl.path = "completed" =>
    /\ gs.bytesSurvivedLastCollection = cl.args.bytesMoved + cl.args.bytesCopied
    /\ gs.bytesSurvivedLastCollection = Sum(ObjectBytes, InToSpace(toSpace))
    /\ Sum(Lengths, DOMAIN toSpace) = Cardinality(InToSpace(toSpace))
    /\ gs.bytesAllocatedSinceLastCollection = 0

\* C16 amended: the sum is over the bytes copied or moved for each survivor;
\* a surviving stack counts with its used bytes, not with its reserved ones.
C16_SurvivedIsSumOfCopyBytes ==
  cl.path = "completed" =>
    /\ gs.bytesSurvivedLastCollection = cl.args.bytesMoved + cl.args.bytesCopied
    /\ gs.bytesSurvivedLastCollection = Sum(CopyBytes, InToSpace(toSpace))
    /\ Sum(Lengths, DOMAIN toSpace) = Cardinality(InToSpace(toSpace))
    /\ gs.bytesAllocatedSinceLastCollection = 0

\* A completed collection with moved and copied survivors, the stack among
\* them.
C16_Witness ==
  /\ cl.path = "completed"
  /\ cl.args.bytesMoved > 0 /\ cl.args.bytesCopied > 0
  /\ cl.args.stacksCopied = 1

----------------------------------------------------------------------------
\* The objects of the worker's hierarchical heap that hold a pointer to an
\* object of a deeper level of it.
DeeperPointers(O) ==
  {a \in DOMAIN O :
     /\ O[a].list = "hh"
     /\ \E i \in 1 .. Len(O[a].fields) :
          LET v == O[a].fields[i] IN
            isObjptr(v) /\ O[v].list = "hh" /\ O[v].level > O[a].level}

\* The current thread and its stack, which the collection takes as roots.
RootObjects ==
  {gs.currentThread, getStackCurrentObjptr(obj, gs.currentThread)}

\* C13 as stated: after a completed collection no object at a level a of
\* the worker's hierarchical heap holds a pointer to an object at a level
\* b > a.
C13_NoDeeperPointer ==
  cl.path = "completed" => DeeperPointers(obj) = {}

\* C13 amended: after a completed collection no object of the worker's
\* hierarchical heap other than the current thread and its stack holds a
\* pointer to an object of a deeper level.
C13_NoDeeperPointerButRoots ==
  cl.path = "completed" => DeeperPointers(obj) \subseteq RootObjects

\* A completed collection that copied a data object and the object it
\* points to, into two levels.
C13_Witness ==
  /\ cl.path = "completed"
  /\ \E a \in InToSpace(toSpace), b \in InToSpace(toSpace) :
       /\ obj[a].header = "GC_NORMAL_HEADER"
       /\ obj[a].fields[1] = b
       /\ obj[b].level < obj[a].level

----------------------------------------------------------------------------
\* Reachability, before and after a collection.

Pointers(seq) == {seq[i] : i \in {j \in DOMAIN seq : isObjptr(seq[j])}}

\* The object pointers the roots hold: the current thread, the slots of the
\* current stack and of the thread object, the deque, and the slots the
\* remembered global down-pointers name.
RootPointers(O, currentThread, dq, downPtrs) ==
  {currentThread}
    \cup Pointers(O[getStackCurrentObjptr(O, currentThread)].fields)
    \cup Pointers(O[currentThread].fields)
    \cup Pointers([i \in 1 .. CAP |-> dq[i - 1]])
    \cup {O[downPtrs[i][1]].fields[downPtrs[i][2]] : i \in DOMAIN downPtrs}

RECURSIVE Reach(_, _)
Reach(O, R) ==
  LET more == R \cup UNION {Pointers(O[a].fields) : a \in R}
  IN IF more = R THEN R ELSE Reach(O, more)

ReachableBefore ==
  Reach(cl.pre.obj,
        RootPointers(cl.pre.obj, cl.pre.currentThread, cl.pre.data,
                     cl.globalDownPtrs))

ReachableAfter ==
  Reach(obj, RootPointers(obj, gs.currentThread, data, cl.globalDownPtrs))

\* The image of an object of the heap before the collection: the copy its
\* forwarding pointer names when its chunk was freed, else the object.
Image(a) == IF obj[a].list = "free" THEN getFwdPtr(obj, a) ELSE a

ImageOfWord(w) == IF isObjptr(w) THEN Image(w) ELSE w

\* The objects after the collection that are `a` or a copy made of `a`.
LiveImages(a) ==
  {c \in DOMAIN obj :
     obj[c].list # "free" /\ (c = a \/ obj[c].origin = a)}

\* C12: after a completed collection every object that was reachable from
\* the roots before it has exactly one image, which is reachable, has the
\* header, the sizes and the level of the object, and holds in each slot the
\* image of what the slot held; the roots hold the images of what they held
\* (so two slots that held one object hold one image).
C12_CopyPreservesReachability ==
  cl.path = "completed" =>
    /\ \A a \in ReachableBefore :
         LET b == Image(a)
             before == cl.pre.obj[a]
         IN /\ isObjptr(b) /\ b \in ReachableAfter
            /\ LiveImages(a) = {b}
            /\ obj[b].list = before.list
            /\ obj[b].level = before.level
            /\ obj[b].header = before.header
            /\ obj[b].bytesNonObjptrs = before.bytesNonObjptrs
            /\ obj[b].used = before.used
            /\ Len(obj[b].fields) = Len(before.fields)
            /\ \A i \in DOMAIN before.fields :
                 obj[b].fields[i] = ImageOfWord(before.fields[i])
    /\ gs.currentThread = Image(cl.pre.currentThread)
    /\ \A k \in DOMAIN data : data[k] = ImageOfWord(cl.pre.data[k])
    /\ \A i \in DOMAIN cl.globalDownPtrs :
         LET e == cl.globalDownPtrs[i] IN
           obj[e[1]].fields[e[2]] = Image(cl.pre.obj[e[1]].fields[e[2]])

\* A completed collection that copied the data object the stack and the
\* deque both pointed to, and the object that one points to.
C12_Witness ==
  /\ cl.path = "completed"
  /\ cl.pre.obj[StackAddr].fields[1] = DataAddr(1)
  /\ \E k \in DOMAIN cl.pre.data : cl.pre.data[k] = DataAddr(1)
  /\ obj[DataAddr(1)].list = "free" /\ hasFwdPtr(obj, DataAddr(1))
  /\ obj[DataAddr(2)].list = "free" /\ hasFwdPtr(obj, DataAddr(2))
  /\ cl.pre.obj[DataAddr(1)].fields[1] = DataAddr(2)

----------------------------------------------------------------------------
\* SpecLocal: the worker uses its deque (it sets the depth and pushes a task,
\* or pops from the deque while it is new), and then calls
\* HM_HHC_collectLocal; the thieves steal in every interleaving with the
\* steps of the worker and of the collection.

MaxSetDepthLocal == 1
MaxPushLocal == 1
MaxTakeLocal == 1

\* A heap for the worker: stack and thread at level 0, a data object at
\* level 1 that the tasks pushed refer to.  The slots of the new deque hold
\* the fail value.
HeapLocal ==
  (StackAddr :> StackObject(0, TRUE, BOGUS_OBJPTR))
    @@ (ThreadAddr :> ThreadObject(0))
    @@ (GlobalAddr :> Object("GC_NORMAL_HEADER", "root", 0, FALSE, <<BOGUS_OBJPTR>>))
    @@ (DataAddr(1) :> DataObject(1, FALSE, BOGUS_OBJPTR))

InitLocal ==
  /\ InitWith(CAP) /\ data = [i \in 0 .. CAP - 1 |-> BOGUS_OBJPTR]
  /\ obj = HeapLocal
  /\ toSpace = [i \in 0 .. MaxLevel |-> NULL]
  /\ \E mode \in {"NONE", "LOCAL"}, depth \in 0 .. MaxLevel :
       gs = StateAt(mode, depth, 1)
  /\ cl = IdleCollect /\ wk = NoWeaks /\ ea = NoAssure

\* The worker is in its program, before its call of the collector.
Mutator == cl.pc = "idle" /\ gs.calls = 0

NextLocal ==
  \/ \E d \in 0 .. MaxLevel :
       Mutator /\ ndepth < MaxSetDepthLocal /\ setDepth_loadTop(d)
  \/ Mutator /\ nextId <= MaxPushLocal /\ pushBot_loadBot(DataAddr(1))
  \/ Mutator /\ bot = 0 /\ nextId = 1 /\ tryPopBot_loadBot
  \/ SetDepthSteps
  \/ PushSteps
  \/ PopBotSteps
  \/ Mutator /\ ownerReturn(FALSE)
  \/ \E desiredScope \in 0 .. MaxScope, force \in BOOLEAN :
       gs.calls < MaxCollect /\ collectLocal_enter(desiredScope, force)
  \/ CollectSteps
  \/ collectLocal_return
  \/ \E t \in Thieves :
       StealAllowed(MaxTop) /\ Taken(MaxTakeLocal) /\ tryPopTop_loadTop(t)
  \/ \E t \in Thieves : PopTopSteps(t)
  \/ \E t \in Thieves : thiefReturn(t, FALSE)

SpecLocal == InitLocal /\ [][NextLocal]_vars

\* C20: when HM_HHC_collectLocal returns after its claim loop has started
\* (completed collection, minLevel == 0, minLevel > currentDepth), bot is
\* the value polled at entry.
C20_BotRestored ==
  cl.pc = "cl_ret" /\ cl.path # "skipped" => bot = cl.polled

----------------------------------------------------------------------------
\* SpecStack: forwardHHObjptr on a slot that refers to a stack, for the
\* stacks of every size: the stack of the current thread and the stack of
\* another (suspended) thread, in a single-object chunk or not, with used <=
\* reserved and with a result of sizeofStackShrinkReserved that keeps the
\* used bytes (it is at least stack->used for every stack).

MaxSlots == 3

StackSizes == {k * OBJPTR_SIZE : k \in 0 .. MaxSlots}

OtherStackAddr == DataAddr(1)

SizedStack(single, used, reserved, shrink) ==
  [StackObject(1, single, BOGUS_OBJPTR) EXCEPT
     !.used = used, !.reserved = reserved, !.shrink = shrink]

InitStack ==
  /\ InitWith(CAP)
  /\ \E s1 \in BOOLEAN, s2 \in BOOLEAN,
        u1 \in StackSizes, r1 \in StackSizes, n1 \in StackSizes,
        u2 \in StackSizes, r2 \in StackSizes, n2 \in StackSizes :
       /\ u1 <= r1 /\ u1 <= n1 /\ u2 <= r2 /\ u2 <= n2
       /\ obj = (StackAddr :> SizedStack(s1, u1, r1, n1))
                  @@ (ThreadAddr :> ThreadObject(1))
                  @@ (OtherStackAddr :> SizedStack(s2, u2, r2, n2))
       /\ cl = [IdleCollect EXCEPT
                  !.pc = "stack",
                  !.args = [NoArgs EXCEPT !.minLevel = 1, !.maxLevel = 1],
                  !.pre = [NoPre EXCEPT !.currentThread = ThreadAddr]]
  /\ toSpace = [i \in 0 .. MaxLevel |-> NULL]
  /\ gs = StateAt("LOCAL", 1, 1)
  /\ wk = NoWeaks /\ ea = NoAssure

\* One call of forwardHHObjptr on a slot that holds the stack `a`; the
\* frame remembers the heap of before and the stack in cl.idx.
forwardStackObject(a) ==
  /\ ~dead /\ cl.pc \in {"stack", "stack_done"}
  /\ obj[a].list = "hh" /\ ~hasFwdPtr(obj, a)
  /\ LET r == forwardHHObjptr(obj, toSpace, cl.args, a,
                              getStackCurrentObjptr(obj, gs.currentThread))
     IN /\ obj' = r.obj /\ toSpace' = r.toSpace
        /\ cl' = [cl EXCEPT !.pc = "stack_done", !.args = r.args,
                            !.idx = a, !.cursor = r.op, !.pre.obj = obj]
  /\ UNCHANGED <<shared, ow, th, ghost, gs, wk, ea>>

NextStack == \E a \in {StackAddr, OtherStackAddr} : forwardStackObject(a)

SpecStack == InitStack /\ [][NextStack]_vars

\* C17: for the stack a forwarding has handled, stack.reserved after it is
\* at most stack.reserved before it (in the stack left behind and in its
\* image), stack.used is what it was, and the sizes computed for it satisfy
\* copySize <= objectSize (used <= reserved after the shrinking).
C17_StackShrinksOnly ==
  cl.pc = "stack_done" =>
    LET a == cl.idx
        b == cl.cursor
        before == cl.pre.obj[a]
        par == computeObjectCopyParameters(
                 before, a = getStackCurrentObjptr(cl.pre.obj, gs.currentThread))
    IN /\ obj[a].reserved <= before.reserved
       /\ obj[b].reserved <= before.reserved
       /\ obj[a].used = before.used /\ obj[b].used = before.used
       /\ par.copySize <= par.objectSize
       /\ obj[b].used <= obj[b].reserved

\* A copied stack whose reserve the forwarding has shrunk, above its used
\* bytes.
C17_Witness ==
  /\ cl.pc = "stack_done"
  /\ cl.cursor # cl.idx
  /\ obj[cl.cursor].reserved < cl.pre.obj[cl.idx].reserved
  /\ obj[cl.cursor].used > 0
  /\ obj[cl.cursor].used < obj[cl.cursor].reserved

----------------------------------------------------------------------------
\* SpecWeak: updateWeaksForCheneyCopy after the copy of a major Cheney
\* collection.  The chain s->weaks links the weak objects the copy has put in
\* to-space; the objptr of each still names its referent in from-space, which
\* the copy has forwarded (header GC_FORWARDED, first word the new address)
\* or not.  The null pointer is 0.

MaxWeaks == 3
MaxReferents == 2

WeakAddr(i) == Addr(10 + i)
ReferentAddr(j) == Addr(20 + j)
ForwardedTo(j) == Addr(30 + j)

\* A weak object: its header, its objptr and its link.
Weak(objptr, link) ==
  [header |-> "GC_WEAK_HEADER", objptr |-> objptr, link |-> link]

\* An object of from-space: its header and its first word.
FromSpaceObject(header, word) == [header |-> header, objptr |-> word, link |-> 0]

InitWeak ==
  /\ InitWith(CAP)
  /\ obj = <<>> /\ toSpace = <<>> /\ gs = NoState /\ cl = IdleCollect
  /\ ea = NoAssure
  /\ \E n \in 0 .. MaxWeaks,
        referent \in [1 .. MaxWeaks -> 1 .. MaxReferents],
        fwd \in [1 .. MaxReferents -> BOOLEAN] :
       LET mem == [a \in {WeakAddr(i) : i \in 1 .. n}
                          \cup {ReferentAddr(j) : j \in 1 .. MaxReferents} |->
                     IF \E i \in 1 .. n : a = WeakAddr(i)
                       THEN LET i == CHOOSE k \in 1 .. n : a = WeakAddr(k)
                            IN Weak(ReferentAddr(referent[i]),
                                    IF i < n THEN WeakAddr(i + 1) ELSE 0)
                       ELSE LET j == CHOOSE k \in 1 .. MaxReferents :
                                        a = ReferentAddr(k)
                            IN IF fwd[j]
                                 THEN FromSpaceObject("GC_FORWARDED", ForwardedTo(j))
                                 ELSE FromSpaceObject("GC_NORMAL_HEADER", BOGUS_OBJPTR)]
       IN /\ \A i \in n + 1 .. MaxWeaks : referent[i] = 1
          /\ wk = [pc |-> "call", weaks |-> IF n = 0 THEN 0 ELSE WeakAddr(1),
                   w |-> 0, mem |-> mem, pre |-> mem,
                   chain |-> {WeakAddr(i) : i \in 1 .. n}]

\* A fixup that takes no referent for forwarded.
Forwarded_never(header) == FALSE

\* GC_FORWARDED == getHeader (p)
Forwarded(header) == header = "GC_FORWARDED"

\* for (w = s->weaks; ...
updateWeaks_first ==
  /\ wk.pc = "call"
  /\ wk' = [wk EXCEPT !.pc = "loop", !.w = wk.weaks]
  /\ UNCHANGED <<shared, ow, th, ghost, heapVars, ea>>

\* the body of the loop for w, and w = w->link
updateWeaks_body ==
  /\ wk.pc = "loop" /\ wk.w # 0
  /\ LET w == wk.w
         p == wk.mem[w].objptr
     IN wk' = [wk EXCEPT
                 !.mem = IF Forwarded(wk.mem[p].header)
                           THEN [@ EXCEPT ![w].objptr = wk.mem[p].objptr]
                           ELSE [@ EXCEPT ![w].header = "GC_WEAK_GONE_HEADER",
                                          ![w].objptr = BOGUS_OBJPTR],
                 !.w = wk.mem[w].link]
  /\ UNCHANGED <<shared, ow, th, ghost, heapVars, ea>>

\* w == NULL: s->weaks = NULL, and return
updateWeaks_last ==
  /\ wk.pc = "loop" /\ wk.w = 0
  /\ wk' = [wk EXCEPT !.pc = "done", !.weaks = 0]
  /\ UNCHANGED <<shared, ow, th, ghost, heapVars, ea>>

NextWeak == updateWeaks_first \/ updateWeaks_body \/ updateWeaks_last

SpecWeak == InitWeak /\ [][NextWeak]_vars

\* C19: after updateWeaksForCheneyCopy every weak of the chain whose referent
\* was forwarded holds the forwarded address and keeps its header, every weak
\* whose referent was not forwarded has the header GC_WEAK_GONE_HEADER and
\* the objptr BOGUS_OBJPTR, and s->weaks is NULL.
C19_WeakFixup ==
  wk.pc = "done" =>
    /\ \A w \in wk.chain :
         LET referent == wk.pre[wk.pre[w].objptr] IN
           IF referent.header = "GC_FORWARDED"
             THEN /\ wk.mem[w].objptr = referent.objptr
                  /\ wk.mem[w].header = "GC_WEAK_HEADER"
             ELSE /\ wk.mem[w].header = "GC_WEAK_GONE_HEADER"
                  /\ wk.mem[w].objptr = BOGUS_OBJPTR
    /\ wk.weaks = 0

\* A fixup that has redirected two weaks to one forwarded referent and
\* cleared a third.
C19_Witness ==
  /\ wk.pc = "done"
  /\ WeakAddr(3) \in wk.chain
  /\ wk.mem[WeakAddr(1)].objptr = wk.mem[WeakAddr(2)].objptr
  /\ wk.mem[WeakAddr(1)].objptr # BOGUS_OBJPTR
  /\ wk.mem[WeakAddr(3)].header = "GC_WEAK_GONE_HEADER"

----------------------------------------------------------------------------
\* SpecAssure: HM_ensureHierarchicalHeapAssurances(s, forceGC, bytesRequested,
\* ensureCurrentLevel).  The heap is seen through hh->lastAllocatedChunk: a
\* chunk is its level, its mightContainMultipleObjects flag, the bytes
\* between its frontier and its limit, and whether its frontier is inside
\* its first block.  s->frontier is the frontier of that chunk, or NULL, and
\* `free` is s->limitPlusSlop - s->frontier.  Bytes are counted in units,
\* 0 .. MaxBytes.
\*
\* The chunk allocator, the collection of this entry point and the growth
\* of the stack are known by their interfaces: HM_HH_extend(hh, n) fails or
\* makes lastAllocatedChunk a new chunk of the current level that may hold
\* several objects and has at least n bytes; a collection leaves
\* lastAllocatedChunk alone (it returned early), or leaves no chunk, or
\* leaves a chunk that may hold several objects (it extends the heap after a
\* single-object chunk); growStackCurrent leaves the frontier in
\* lastAllocatedChunk, a chunk that may hold several objects.

MaxBytes == 2

\* s->limitPlusSlop - s->limit as the entry points set it, in the same units.
GC_HEAP_LIMIT_SLOP == 1

Chunk(level, multi, room, firstBlock) ==
  [null |-> FALSE, level |-> level, mightContainMultipleObjects |-> multi,
   room |-> room, firstBlock |-> firstBlock]

NoChunk ==
  [null |-> TRUE, level |-> 0, mightContainMultipleObjects |-> FALSE,
   room |-> 0, firstBlock |-> FALSE]

\* The chunks HM_HH_extend(hh, bytes) may make at level `level`.
NewChunks(level, bytes) ==
  {Chunk(level, TRUE, room, TRUE) : room \in bytes .. MaxBytes}

\* The chunks the mutator or a collection may leave as lastAllocatedChunk:
\* chunks that may hold several objects, at a level up to `level`.
MultiChunks(level) ==
  {Chunk(l, TRUE, room, fb) :
     l \in 0 .. level, room \in 0 .. MaxBytes, fb \in BOOLEAN}

\* The entry of HM_ensureHierarchicalHeapAssurances, `collector` being the
\* frame of HM_HHC_collectLocal.
InitAssureWith(collector) ==
  /\ InitWith(CAP)
  /\ obj = <<>> /\ toSpace = <<>> /\ gs = NoState /\ cl = collector
  /\ wk = NoWeaks
  /\ \E forceGC \in BOOLEAN, bytesRequested \in 0 .. MaxBytes,
        ensureCurrentLevel \in BOOLEAN, level \in 0 .. MaxLevel,
        desiredScope \in 0 .. MaxLevel + 1,
        stackOk \in BOOLEAN, stackBytes \in 1 .. MaxBytes,
        behind \in BOOLEAN :
       \E chunk \in MultiChunks(level) :
         ea = [pc |-> "call", forceGC |-> forceGC,
               bytesRequested |-> bytesRequested,
               ensureCurrentLevel |-> ensureCurrentLevel,
               level |-> level, desiredScope |-> desiredScope,
               invariantForMutatorStack |-> stackOk,
               sizeofStackGrow |-> stackBytes,
               behind |-> behind,
               growStack |-> FALSE, stackBytes |-> 0,
               lastAllocatedChunk |-> chunk,
               frontierNull |-> FALSE, free |-> chunk.room,
               slop |-> GC_HEAP_LIMIT_SLOP,
               collected |-> FALSE, extended |-> FALSE]

InitAssure == InitAssureWith(IdleCollect)

\* An entry point that does not look at the block the frontier is in.
NeedsExtend_ignoringBlock(chunk, ensureCurrentLevel, level, free, bytes) ==
  \/ chunk.null
  \/ ensureCurrentLevel /\ chunk.level # level
  \/ free < bytes

\* An entry point that extends only for a missing chunk, a wrong level or a
\* frontier beyond the first block.
NeedsExtend_ignoringRoom(chunk, ensureCurrentLevel, level, free, bytes) ==
  \/ chunk.null
  \/ ensureCurrentLevel /\ chunk.level # level
  \/ ~chunk.firstBlock

\* NULL == hh->lastAllocatedChunk || (ensureCurrentLevel && level of the
\* chunk != hh->level) || chunk frontier >= chunk + HM_BLOCK_SIZE ||
\* (size_t)(s->limitPlusSlop - s->frontier) < bytes
NeedsExtend(chunk, ensureCurrentLevel, level, free, bytes) ==
  \/ chunk.null
  \/ ensureCurrentLevel /\ chunk.level # level
  \/ ~chunk.firstBlock
  \/ free < bytes

\* The frame after 'if (!HM_HH_extend(hh, bytes)) DIE; s->frontier =
\* HM_HH_getFrontier(hh); s->limitPlusSlop = HM_HH_getLimit(hh)' made `chunk`.
\* s->limit = s->limitPlusSlop - GC_HEAP_LIMIT_SLOP follows each time (all
\* three are NULL when there is no chunk): `slop` is limitPlusSlop - limit.
Republish(frame, chunk) ==
  [frame EXCEPT !.lastAllocatedChunk = chunk, !.frontierNull = chunk.null,
                !.free = chunk.room,
                !.slop = IF chunk.null THEN 0 ELSE GC_HEAP_LIMIT_SLOP]

\* From the entry to the test for a collection: growStack and stackBytes,
\* the DIE on limitPlusSlop < frontier.
ensure_enter ==
  /\ ~dead /\ ea.pc = "call"
  /\ IF ea.behind
       THEN dead' = TRUE /\ ea' = [ea EXCEPT !.pc = "dead"]
       ELSE /\ ea' = [ea EXCEPT
                        !.growStack = ~ea.invariantForMutatorStack,
                        !.stackBytes = IF ea.invariantForMutatorStack
                                         THEN 0 ELSE ea.sizeofStackGrow,
                        !.pc = IF ea.forceGC \/ ea.desiredScope <= ea.level
                                 THEN "collect" ELSE "grow"]
            /\ UNCHANGED dead
  /\ UNCHANGED <<top, bot, data, len, ow, th, ghost, heapVars, wk>>

\* HM_HHC_collectLocal(desiredScope) and the republishing of the frontier
\* from hh->lastAllocatedChunk (NULL when everything was collected).
ensure_collect ==
  /\ ~dead /\ ea.pc = "collect"
  /\ \E chunk \in {ea.lastAllocatedChunk, NoChunk} \cup MultiChunks(ea.level) :
       ea' = [Republish(ea, chunk) EXCEPT !.pc = "grow", !.collected = TRUE]
  /\ UNCHANGED <<shared, ow, th, ghost, heapVars, wk>>

\* if (growStack) { extend when needed for stackBytes; growStackCurrent(s);
\* HM_HH_updateValues(hh, s->frontier) }
ensure_growStack ==
  /\ ~dead /\ ea.pc = "grow"
  /\ IF ~ea.growStack
       THEN ea' = [ea EXCEPT !.pc = "final"] /\ UNCHANGED dead
       ELSE \/ /\ NeedsExtend(ea.lastAllocatedChunk, ea.ensureCurrentLevel,
                              ea.level, ea.free, ea.stackBytes)
               /\ dead' = TRUE /\ ea' = [ea EXCEPT !.pc = "dead"]
            \/ /\ \E chunk \in MultiChunks(ea.level) :
                    ea' = [Republish(ea, chunk) EXCEPT !.pc = "final"]
               /\ UNCHANGED dead
  /\ UNCHANGED <<top, bot, data, len, ow, th, ghost, heapVars, wk>>

\* The extension for bytesRequested, and the return.
ensure_final ==
  /\ ~dead /\ ea.pc = "final"
  /\ IF NeedsExtend(ea.lastAllocatedChunk, ea.ensureCurrentLevel,
                    ea.level, ea.free, ea.bytesRequested)
       THEN \/ dead' = TRUE /\ ea' = [ea EXCEPT !.pc = "dead"]
            \/ /\ \E chunk \in NewChunks(ea.level, ea.bytesRequested) :
                    ea' = [Republish(ea, chunk) EXCEPT
                             !.pc = "done", !.extended = TRUE]
               /\ UNCHANGED dead
       ELSE ea' = [ea EXCEPT !.pc = "done"] /\ UNCHANGED dead
  /\ UNCHANGED <<top, bot, data, len, ow, th, ghost, heapVars, wk>>

NextAssure == ensure_enter \/ ensure_collect \/ ensure_growStack \/ ensure_final

SpecAssure == InitAssure /\ [][NextAssure]_vars

----------------------------------------------------------------------------
\* C30: when tryPopBot finds exactly one element left (local_top ==
\* local_bot after its decrement), its compare-exchange either moves top by
\* one and keeps the element, or finds top moved by a thief and takes the
\* fail value; the store that follows puts bot back to its value on entry,
\* top == bot then (the deque is empty), and the call returns the element
\* iff its own compare-exchange succeeded, the fail value otherwise.
C30_LastElement ==
  [][ /\ ow.pc = "pop_cas" /\ ow'.pc # "pop_cas" =>
           /\ ow.local_top = ow.local_bot
           /\ ow'.pc = "pop_restoreLast"
           /\ \/ /\ top = ow.local_top /\ top' = U64(top + 1)
                 /\ ow'.elem = data[Slot(ow.local_bot)]
                 /\ ow'.local_top = ow.local_bot
              \/ /\ top # ow.local_top /\ top' = top
                 /\ ow'.elem = BOGUS_OBJPTR
                 /\ ow'.local_top # ow.local_bot
      /\ ow.pc = "pop_restoreLast" /\ ow'.pc # "pop_restoreLast" =>
           /\ ow'.pc = "pop_ret"
           /\ bot' = ow.bot0 /\ top' = bot' /\ top' = top
           /\ ow'.ret = IF ow.local_top = ow.local_bot
                          THEN data[Slot(ow.local_bot)] ELSE BOGUS_OBJPTR ]_vars

\* The owner's compare-exchange won the last element while a thief that had
\* seen the element lost its own.
C30_Witness ==
  /\ ow.pc = "pop_ret" /\ race.on
  /\ ow.local_top = ow.local_bot /\ ow.ret = race.item
  /\ top = bot /\ bot = ow.bot0
  /\ \E t \in Thieves :
       /\ th[t].pc = "steal_ret" /\ note[t].race
       /\ th[t].local_bot = ow.bot0 /\ th[t].ret = BOGUS_OBJPTR

----------------------------------------------------------------------------
\* SpecClaim: no thief.  The worker sets the depth of its new deque and
\* pushes tasks, one call after the other, and then calls
\* HM_HHC_collectLocal, the one caller of pollCurrentLocalScope,
\* tryClaimLocalScope and releaseLocalScope.  The calls of the worker are
\* recorded: hist[1] is its last call before the collection.

MaxSetDepthClaim == 2
MaxPushClaim == 2

NextClaim ==
  \/ \E d \in 0 .. MaxLevel :
       Mutator /\ ndepth < MaxSetDepthClaim /\ setDepth_loadTop(d)
  \/ Mutator /\ nextId <= MaxPushClaim /\ pushBot_loadBot(DataAddr(1))
  \/ SetDepthSteps
  \/ PushSteps
  \/ Mutator /\ ownerReturn(TRUE)
  \/ \E desiredScope \in 0 .. MaxScope, force \in BOOLEAN :
       gs.calls < MaxCollect /\ collectLocal_enter(desiredScope, force)
  \/ CollectSteps
  \/ PopBotSteps
  \/ collectLocal_return

SpecClaim == InitLocal /\ [][NextClaim]_vars

\* The claim loop of a call of HM_HHC_collectLocal is running.
Claiming == cl.pc = "cl_claim"

\* C28: with no thief, no step of the claim loop changes top or a slot of
\* the deque, and the release that follows the loop leaves bot at the value
\* polled before the first claim: top, bot and the entries with index in
\* [top, bot) are as they were before the first claim.
C28_ClaimIsTemporary ==
  /\ [][Claiming => top' = top /\ data' = data]_vars
  /\ [](cl.pc = "cl_ret" /\ cl.path # "skipped" => bot = cl.polled)

----------------------------------------------------------------------------
\* SpecSteal: the worker at depth cd has set the depth of its deque to
\* cd - n and pushed n tasks (bot == cd); it calls HM_HHC_collectLocal while
\* the thieves steal, in every interleaving of the steps of the collection
\* (the steps of its claims included) with the steps of the thieves.

MaxEntries == 2

InitSteal ==
  /\ \E cd \in 1 .. MaxLevel, n \in 0 .. MaxEntries :
       /\ n <= cd
       /\ top = cd - n /\ bot = cd
       /\ data = [i \in 0 .. CAP - 1 |->
                    IF cd - n <= i /\ i < cd THEN DataAddr(1) ELSE BOGUS_OBJPTR]
       /\ gs = StateAt("LOCAL", cd, 1)
  /\ len = CAP /\ dead = FALSE
  /\ ow = IdleOwner /\ th = [t \in Thieves |-> IdleThief]
  /\ nextId = 1 /\ ndepth = 0 /\ pushed = {} /\ returned = EmptyBag
  /\ race = NoRace /\ note = [t \in Thieves |-> NoNote]
  /\ hist = <<NoCall, NoCall, NoCall>> /\ ref = <<>>
  /\ obj = HeapLocal
  /\ toSpace = [i \in 0 .. MaxLevel |-> NULL]
  /\ cl = IdleCollect /\ wk = NoWeaks /\ ea = NoAssure

NextSteal ==
  \/ \E desiredScope \in 0 .. MaxScope, force \in BOOLEAN :
       gs.calls < MaxCollect /\ collectLocal_enter(desiredScope, force)
  \/ CollectSteps
  \/ PopBotSteps
  \/ collectLocal_return
  \/ \E t \in Thieves :
       StealAllowed(MaxTop) /\ Taken(MaxEntries) /\ tryPopTop_loadTop(t)
  \/ \E t \in Thieves : PopTopSteps(t)
  \/ \E t \in Thieves : thiefReturn(t, FALSE)

SpecSteal == InitSteal /\ [][NextSteal]_vars

\* The claim loop of the running collection has ended and
\* releaseLocalScope has not run yet.
ScopeHeld ==
  \/ cl.pc = "cl_claim" /\ ow.pc = "idle" /\ ~ClaimMore
  \/ cl.pc \in {"cl_check", "cl_stack", "cl_thread", "cl_current", "cl_deque",
                "cl_downptrs", "cl_scan", "cl_merge", "cl_unlock"}

\* C26: from the end of the claim loop of HM_HHC_collectLocal until
\* releaseLocalScope runs, no compare-exchange of a thief's tryPopTop
\* succeeds on an index >= minLevel (the index of the entry the call then
\* returns): the depths the collector claimed are not stolen while it
\* collects them.
C26_ClaimedNotStolen ==
  [][ScopeHeld =>
       \A t \in Thieves :
         th[t].pc = "steal_cas" /\ th'[t].pc = "steal_ret" /\ top' # top =>
           th[t].local_top < cl.minLevel]_vars

\* While the collection runs on the depth it claimed without a
\* compare-exchange, a thief that saw the lowered bot has stolen the entry
\* below it.
C26_Witness ==
  /\ cl.pc \in {"cl_stack", "cl_thread", "cl_current", "cl_deque",
                "cl_downptrs", "cl_scan", "cl_merge", "cl_unlock"}
  /\ cl.minLevel < cl.polled
  /\ \E t \in Thieves :
       /\ th[t].pc = "steal_ret" /\ note[t].took
       /\ th[t].local_bot = cl.minLevel
       /\ th[t].local_top < cl.minLevel

----------------------------------------------------------------------------
\* SpecABA: the owner pushes, pops and, when it finds its deque empty
\* (top == bot), sets its depth; the thieves steal, in every interleaving of
\* the steps.  A pop begins at bot > 0 only, where the decrement of bot does
\* not wrap.

MaxPushABA == 2
MaxDepthABA == 1
MaxSetDepthABA == 1

NextABA ==
  \/ nextId <= MaxPushABA /\ pushBot_loadBot(Obj(nextId))
  \/ bot > 0 /\ tryPopBot_loadBot
  \/ \E d \in 0 .. MaxDepthABA :
       top = bot /\ ndepth < MaxSetDepthABA /\ setDepth_loadTop(d)
  \/ PushSteps
  \/ PopBotSteps
  \/ SetDepthSteps
  \/ ownerReturn(FALSE)
  \/ \E t \in Thieves : StealAllowed(MaxTop) /\ tryPopTop_loadTop(t)
  \/ \E t \in Thieves : PopTopSteps(t)
  \/ \E t \in Thieves : thiefReturn(t, FALSE)

SpecABA == Init /\ [][NextABA]_vars

\* The pushed values that no pop has returned.
Unreturned == {v \in pushed : CopiesIn(v, returned) = 0}

\* The values in the slots of the indices top .. bot - 1.
Entries == {data[Slot(i)] : i \in top .. bot - 1}

\* C27: when the owner calls setDepth between its pops and pushes, each
\* time on an empty deque, a tryPopTop that overlaps the setDepth returns no
\* value that a pop has returned already, and whenever the owner is between
\* two calls every pushed value that no pop has returned is an entry of the
\* deque (it can still be obtained).
C27_NoABA ==
  /\ \A t \in Thieves :
       th[t].pc = "steal_ret" /\ note[t].depth /\ th[t].ret # BOGUS_OBJPTR =>
         CopiesIn(th[t].ret, returned) = 1
  /\ ow.pc = "idle" => Unreturned \subseteq Entries

----------------------------------------------------------------------------
\* The exits of HM_HHC_collectLocal that skip the collection: the three
\* returns before the claim loop ("skipped") and the two jumps to
\* unlock_local_scope_and_return after it.
SkipPaths == {"skipped", "rootHeap", "deeper"}

\* The statistics of the thread that a collection writes.
Statistics(state) ==
  <<state.bytesSurvivedLastCollection, state.bytesAllocatedSinceLastCollection>>

\* C21: a call of HM_HHC_collectLocal that skips the collection is a no-op.
\* No step of it writes a slot of the deque, the heap (the levels of the
\* hierarchical heap, the free list), a to-space list, s->currentThread or
\* the statistics of the thread, and when it returns top and bot are what
\* they were when the last call of the worker before it had returned.
C21_SkippedIsNoOp ==
  /\ [][cl'.path \in SkipPaths =>
          /\ data' = data /\ obj' = obj /\ toSpace' = toSpace
          /\ gs'.currentThread = gs.currentThread
          /\ Statistics(gs') = Statistics(gs)]_vars
  /\ [](cl.pc = "cl_ret" /\ cl.path \in SkipPaths =>
          top = hist[1].top1 /\ bot = hist[1].bot1)

----------------------------------------------------------------------------
\* The objects that carry a forwarding pointer and are not on the free list
\* (the from-space of an earlier collection lies there, with the forwarding
\* pointers it had).
Forwardeds == {a \in DOMAIN obj : obj[a].list # "free" /\ hasFwdPtr(obj, a)}

\* C23: at every point of a collection, an object that carries a forwarding
\* pointer is a from-space object of the levels under collection that was
\* copied; the forwarding pointer names its copy, a to-space object that
\* carries no forwarding pointer; every copy in to-space is the one its
\* original's forwarding pointer names; and the chain forwardHHObjptr follows
\* from the slot it is called on next has at most one link.
C23_ForwardingPointers ==
  cl.path = "collecting" =>
    /\ \A a \in Forwardeds :
         LET c == getFwdPtr(obj, a) IN
           /\ obj[a].list = "hh"
           /\ cl.args.minLevel <= obj[a].level /\ obj[a].level <= cl.args.maxLevel
           /\ c \in DOMAIN obj /\ obj[c].origin = a
           /\ obj[c].list = "to" /\ ~hasFwdPtr(obj, c)
    /\ \A c \in InToSpace(toSpace) :
         /\ ~hasFwdPtr(obj, c)
         /\ obj[c].origin # 0 => getFwdPtr(obj, obj[c].origin) = c
    /\ isObjptr(Pending) =>
         chaseFwdPtr(obj, Pending) \in {Pending, getFwdPtr(obj, Pending)}

\* The collection is about to forward a slot whose referent has been copied
\* already: forwardHHObjptr will follow its forwarding pointer.
C23_Witness ==
  /\ cl.path = "collecting"
  /\ isObjptr(Pending) /\ hasFwdPtr(obj, Pending)
  /\ obj[Pending].list = "hh"

----------------------------------------------------------------------------
\* SpecThreads: the heaps of SpecGC's kind in which a data object may refer
\* to a suspended thread.  A thread is a first-class value of the program: a
\* thread that is not running is an object of the heap it was created in,
\* it holds its stack, and forwardHHObjptr provides for the stacks that are
\* not the current one (`current` in computeObjectCopyParameters).

SuspendedThreadAddr == DataAddr(3)
SuspendedStackAddr == DataAddr(4)

InitThreads ==
  \E cd \in 1 .. MaxLevel, n \in 0 .. 1, mode \in {"LOCAL", "SUPERLOCAL"},
     x \in {BOGUS_OBJPTR, DataAddr(1)},
     l1 \in 1 .. MaxLevel, lt \in 1 .. MaxLevel,
     f1 \in {BOGUS_OBJPTR, SuspendedThreadAddr}, y \in {BOGUS_OBJPTR, DataAddr(1)} :
    LET O == (StackAddr :> StackObject(0, TRUE, x))
             @@ (ThreadAddr :> ThreadObject(0))
             @@ (GlobalAddr :> Object("GC_NORMAL_HEADER", "root", 0, FALSE,
                                      <<BOGUS_OBJPTR>>))
             @@ (DataAddr(1) :> DataObject(l1, FALSE, f1))
             @@ (DataAddr(2) :> DataObject(l1, FALSE, BOGUS_OBJPTR))
             @@ (SuspendedThreadAddr :>
                   [ThreadObject(lt) EXCEPT !.fields = <<SuspendedStackAddr>>])
             @@ (SuspendedStackAddr :> StackObject(lt, TRUE, y))
    IN
    /\ Hierarchical(O, cd)
    /\ lt <= cd /\ l1 <= cd
    /\ y # BOGUS_OBJPTR => l1 <= lt
    /\ obj = O
    /\ toSpace = [i \in 0 .. MaxLevel |-> NULL]
    /\ gs = StateAt(mode, cd, 1)
    /\ cl = IdleCollect /\ wk = NoWeaks /\ ea = NoAssure
    /\ top = cd - n /\ bot = cd
    /\ data = [i \in 0 .. CAP - 1 |->
                 IF cd - n <= i /\ i < cd THEN DataAddr(1) ELSE BOGUS_OBJPTR]
    /\ len = CAP /\ dead = FALSE
    /\ ow = IdleOwner /\ th = [t \in Thieves |-> IdleThief]
    /\ nextId = 1 /\ ndepth = 0 /\ pushed = {} /\ returned = EmptyBag
    /\ race = NoRace /\ note = [t \in Thieves |-> NoNote]
    /\ hist = <<NoCall, NoCall, NoCall>> /\ ref = <<>>

SpecThreads == InitThreads /\ [][NextGC]_vars

\* The slots of the to-space objects that refer to a from-space object of
\* the levels under collection.
StaleSlots ==
  {e \in UNION {SlotsOf(obj, a) : a \in InToSpace(toSpace)} :
     LET v == obj[e[1]].fields[e[2]] IN
       /\ isObjptr(v) /\ obj[v].list = "hh"
       /\ cl.args.minLevel <= obj[v].level
       /\ obj[v].level <= gs.currentDepth}

----------------------------------------------------------------------------
\* The objects in the chunk lists of the levels 0 .. currentDepth of the
\* hierarchical heap.
InLevels == {a \in DOMAIN obj : obj[a].list \in {"hh", "to"}
                                /\ obj[a].level <= gs.currentDepth}

\* C24: from its creation until the merge every to-space list has
\* isInToSpace set and containingHH == COPY_OBJECT_HH_VALUE; when
\* HM_HHC_collectLocal has completed, every list of the levels
\* 0 .. currentDepth of the hierarchical heap, the adopted to-space lists
\* among them, has isInToSpace clear and containingHH == hh.
C24_ToSpaceFlags ==
  /\ cl.path = "collecting" =>
       \A i \in DOMAIN toSpace : \A a \in Members(toSpace[i]) :
         /\ HM_isObjptrInToSpace(obj, a)
         /\ obj[a].containingHH = COPY_OBJECT_HH_VALUE
         /\ obj[a].level = i
  /\ cl.path = "completed" =>
       /\ \A a \in InLevels :
            ~HM_isObjptrInToSpace(obj, a) /\ obj[a].containingHH = HH
       /\ InToSpace(toSpace) \subseteq InLevels

\* A collection that completed with a to-space list to adopt.
C24_Witness ==
  /\ cl.path = "completed" /\ cl.pc = "cl_ret"
  /\ InToSpace(toSpace) # {}

----------------------------------------------------------------------------
\* SpecStealFair: the deques and thieves of SpecSteal, one call of
\* HM_HHC_collectLocal, and the worker that runs it scheduled: while a step of the call is possible, one is taken in the end.
\* Nothing is assumed of the thieves, which may stop anywhere or steal
\* whenever they can.

Collector == CollectSteps \/ PopBotSteps

\* One call of HM_HHC_collectLocal among the thieves.
NextOnce ==
  \/ \E desiredScope \in 0 .. MaxScope, force \in BOOLEAN :
       Mutator /\ collectLocal_enter(desiredScope, force)
  \/ CollectSteps
  \/ PopBotSteps
  \/ collectLocal_return
  \/ \E t \in Thieves :
       StealAllowed(MaxTop) /\ Taken(MaxEntries) /\ tryPopTop_loadTop(t)
  \/ \E t \in Thieves : PopTopSteps(t)
  \/ \E t \in Thieves : thiefReturn(t, FALSE)

SpecStealFair == InitSteal /\ [][NextOnce]_vars /\ WF_vars(Collector)

\* The iterations of the claim loop so far, and what the claim allows.
Iterations == cl.polled - cl.minLevel
Larger(a, b) == IF a > b THEN a ELSE b
IterationBound ==
  Larger(0, cl.polled - Larger(cl.desiredScope, gs.minLocalLevel))

\* The slots of the to-space objects the scan looks into that it has left
\* unvisited.
Unscanned ==
  {e \in StaleSlots : skipStackAndThreadObjptrPredicate(obj[e[1]])}

----------------------------------------------------------------------------
\* SpecResume: the three entry points that hand the heap to the mutator:
\* HM_ensureHierarchicalHeapAssurances (as in SpecAssure), HM_enterLocalHeap
\* and initWorld.  HM_enterLocalHeap finds hh->lastAllocatedChunk as
\* HM_exitLocalHeap or a collection left it: none, or a chunk with any room
\* and its frontier in the first block or beyond it.  initWorld makes the
\* heap of level 0 and copies 0 .. MaxVectors vectors of 1 .. MaxBytes bytes
\* into it.  HM_HH_ensureNotEmpty extends an empty heap by
\* GC_HEAP_LIMIT_SLOP.

MaxVectors == 2

\* The frame of an entry point other than HM_ensureHierarchicalHeapAssurances:
\* s->frontier, s->limitPlusSlop and s->limit hold nothing yet.
Entry(pc, level, chunk, vectors) ==
  [pc |-> pc, level |-> level, lastAllocatedChunk |-> chunk,
   frontierNull |-> TRUE, free |-> 0, slop |-> 0, vectors |-> vectors,
   extended |-> FALSE]

InitResume ==
  \/ InitAssure
  \/ /\ InitWith(CAP)
     /\ obj = <<>> /\ toSpace = <<>> /\ gs = NoState /\ cl = IdleCollect
     /\ wk = NoWeaks
     /\ \/ \E level \in 0 .. MaxLevel :
             \E chunk \in {NoChunk} \cup MultiChunks(level) :
               ea = Entry("enter", level, chunk, 0)
        \/ \E n \in 0 .. MaxVectors : ea = Entry("initWorld", 0, NoChunk, n)

\* HM_enterLocalHeap: HM_HH_ensureNotEmpty(hh), then the frontier and the
\* limit of the heap are published.
HM_enterLocalHeap ==
  /\ ~dead /\ ea.pc = "enter"
  /\ IF ea.lastAllocatedChunk.null
       THEN \/ dead' = TRUE /\ ea' = [ea EXCEPT !.pc = "dead"]
            \/ /\ \E chunk \in NewChunks(ea.level, GC_HEAP_LIMIT_SLOP) :
                    ea' = [Republish(ea, chunk) EXCEPT
                             !.pc = "entered", !.extended = TRUE]
               /\ UNCHANGED dead
       ELSE /\ ea' = [Republish(ea, ea.lastAllocatedChunk) EXCEPT
                        !.pc = "entered"]
            /\ UNCHANGED dead
  /\ UNCHANGED <<top, bot, data, len, ow, th, ghost, heapVars, wk>>

\* initThreadAndHeap(s, 0): newThreadWithHeap makes the heap, whose frontier
\* and limit are published.
initThreadAndHeap ==
  /\ ~dead /\ ea.pc = "initWorld"
  /\ \E chunk \in NewChunks(0, 0) :
       ea' = [Republish(ea, chunk) EXCEPT !.pc = "initVectors"]
  /\ UNCHANGED <<shared, ow, th, ghost, heapVars, wk>>

\* The chunk after `bytes` more bytes were allocated at its frontier, which
\* may have passed the end of the first block.
Allocated(chunk, bytes) ==
  {[chunk EXCEPT !.room = @ - bytes, !.firstBlock = fb] :
     fb \in {chunk.firstBlock, FALSE}}

\* One turn of the loop of initVectors, for a vector of objectSize bytes:
\* the heap is extended when the vector does not fit or the frontier is
\* beyond the first block, and the vector is copied to the frontier.
initVectors_copy ==
  /\ ~dead /\ ea.pc = "initVectors" /\ ea.vectors > 0
  /\ \E objectSize \in 1 .. MaxBytes :
       LET here == ea.lastAllocatedChunk
           full == ea.free < objectSize \/ ~here.firstBlock
       IN \/ full /\ dead' = TRUE /\ ea' = [ea EXCEPT !.pc = "dead"]
          \/ /\ \E chunk \in IF full THEN NewChunks(0, objectSize) ELSE {here} :
                  \E after \in Allocated(chunk, objectSize) :
                    ea' = [ea EXCEPT !.lastAllocatedChunk = after,
                                     !.frontierNull = FALSE,
                                     !.free = after.room,
                                     !.slop = GC_HEAP_LIMIT_SLOP,
                                     !.extended = @ \/ full,
                                     !.vectors = @ - 1]
             /\ UNCHANGED dead
  /\ UNCHANGED <<top, bot, data, len, ow, th, ghost, heapVars, wk>>

\* After the loop: s->frontier = frontier; the heap is extended by
\* GC_HEAP_LIMIT_SLOP when the last allocation passed a block boundary.
\* initWorld then sets the collection threshold and returns.
initVectors_last ==
  /\ ~dead /\ ea.pc = "initVectors" /\ ea.vectors = 0
  /\ IF ~ea.lastAllocatedChunk.firstBlock
       THEN \/ dead' = TRUE /\ ea' = [ea EXCEPT !.pc = "dead"]
            \/ /\ \E chunk \in NewChunks(0, GC_HEAP_LIMIT_SLOP) :
                    ea' = [Republish(ea, chunk) EXCEPT
                             !.pc = "initialized", !.extended = TRUE]
               /\ UNCHANGED dead
       ELSE ea' = [ea EXCEPT !.pc = "initialized"] /\ UNCHANGED dead
  /\ UNCHANGED <<top, bot, data, len, ow, th, ghost, heapVars, wk>>

NextResume ==
  \/ NextAssure
  \/ HM_enterLocalHeap
  \/ initThreadAndHeap
  \/ initVectors_copy
  \/ initVectors_last

SpecResume == InitResume /\ [][NextResume]_vars

\* The entry point has returned: the mutator runs again.
Resumed == ea.pc \in {"done", "entered", "initialized"}

\* s->limit == s->limitPlusSlop - GC_HEAP_LIMIT_SLOP, and s->limitPlusSlop
\* is the limit of the chunk s->frontier is in.
LimitsPublished ==
  /\ ~ea.frontierNull
  /\ ea.slop = GC_HEAP_LIMIT_SLOP
  /\ ea.free = ea.lastAllocatedChunk.room

----------------------------------------------------------------------------
\* The collection has gone on to copy (both tests after the claim loop
\* passed).
Copying == cl.path = "collecting"

\* C31: whenever HM_HHC_collectLocal goes on to copy, 1 <= minLevel <=
\* currentDepth; minLevel is below desiredScope or minLocalLevel only if
\* originalLocalScope already was; every successful tryClaimLocalScope, and
\* nothing else, lowers minLevel by one, so that originalLocalScope -
\* minLevel is the number of successful claims (in the first call: the
\* number of entries the owner has taken from the deque); the range
\* collected is [minLevel, currentDepth], and [currentDepth, currentDepth]
\* under SUPERLOCAL.
C31_ScopeOfCollection ==
  /\ [](Copying =>
          /\ 1 <= cl.minLevel /\ cl.minLevel <= gs.currentDepth
          /\ \/ cl.minLevel >= Larger(cl.desiredScope, gs.minLocalLevel)
             \/ cl.minLevel = cl.originalLocalScope
          /\ cl.args.maxLevel = gs.currentDepth
          /\ cl.args.minLevel = IF gs.hhCollectionLevel = "SUPERLOCAL"
                                  THEN gs.currentDepth ELSE cl.minLevel
          /\ gs.calls = 1 =>
               cl.originalLocalScope - cl.minLevel = BagCardinality(returned))
  /\ [][(cl.pc = "cl_claim" /\ ow.pc = "pop_ret" /\ ow.ret # BOGUS_OBJPTR)
          => cl'.minLevel = cl.minLevel - 1]_vars
  /\ [][(/\ cl.pc \notin {"idle", "cl_poll"} /\ cl'.pc # "idle"
         /\ cl'.minLevel # cl.minLevel)
          => cl.pc = "cl_claim" /\ ow.pc = "pop_ret" /\ ow.ret # BOGUS_OBJPTR]_vars

\* A collection under SUPERLOCAL that copies after a successful claim.
C31_Witness ==
  /\ Copying /\ gs.hhCollectionLevel = "SUPERLOCAL"
  /\ cl.originalLocalScope - cl.minLevel = 1
  /\ cl.minLevel < gs.currentDepth

----------------------------------------------------------------------------
\* What the call of forwardHHObjptr that the next step of the collection
\* makes returns.
PendingResult ==
  forwardHHObjptr(obj, toSpace, cl.args, Pending,
                  getStackCurrentObjptr(obj, gs.currentThread))

\* The slot passed refers to nothing the collection copies: it holds no
\* object pointer, or one into the root heap or to a level below minLevel.
OutOfScope(O, A, op) ==
  \/ ~isObjptr(op)
  \/ isObjptrInRootHeap(O, op)
  \/ HM_getObjptrLevel(O, op) < A.minLevel

\* C32: when forwardHHObjptr returns (without DIE), the slot holds a
\* non-pointer, a pointer into the root heap, a pointer to an object of a
\* level below minLevel, or a pointer to a to-space object of the level the
\* referent had; and when the slot held a non-pointer, a root-heap pointer
\* or a pointer to a level below minLevel on entry, the slot, the heap, the
\* to-space lists and the counters are as they were.
C32_ForwardedSlot ==
  Copying /\ Pending # 0 /\ ~PendingResult.die =>
    LET r == PendingResult IN
      /\ \/ OutOfScope(r.obj, cl.args, r.op)
         \/ /\ HM_isObjptrInToSpace(r.obj, r.op)
            /\ HM_getObjptrLevel(r.obj, r.op) = HM_getObjptrLevel(obj, Pending)
      /\ OutOfScope(obj, cl.args, Pending) =>
           /\ r.op = Pending /\ r.obj = obj
           /\ r.toSpace = toSpace /\ r.args = cl.args

\* The next call forwards a slot whose referent was copied before (the slot
\* is rewritten to the copy), in a heap that holds objects below minLevel.
C32_Witness ==
  /\ Copying /\ PendingInHH
  /\ hasFwdPtr(obj, Pending)
  /\ PendingResult.op # Pending
  /\ \E a \in DOMAIN obj : obj[a].list = "hh" /\ obj[a].level < cl.args.minLevel

----------------------------------------------------------------------------
\* SpecChunks: HM_HHC_collectLocal seen at the grain of chunks.  Here obj is
\* the chunk at each chunk address, toSpace[i] and gs.levels[i] are chunk
\* lists (the chunk addresses in list order, NULL when there is no list), and
\* gs.freeListSmall is the free list.  Each forwardHHObjptr call that forwards
\* an object either copies it with copyObject or relinks its single-object
\* chunk; then the old chunks are freed, the to-space lists are merged in and
\* hh->lastAllocatedChunk is repaired.  A chunk records the bytes left up to
\* its limit (room), the bytes below its frontier (used), whether its
\* frontier is in its first block, and the sizes of the objects put in it.

\* The most objects the forwardHHObjptr calls of a collection forward.
MaxForwards == 2

\* The deepest current depth of the thread that collects.
MaxChunkDepth == 2

NullChunk == 0

HHChunk(multi, room, used, objects) ==
  [mightContainMultipleObjects |-> multi, room |-> room, used |-> used,
   firstBlock |-> TRUE, objects |-> objects]

\* The chunks a level holds when the collection begins: "M" may hold several
\* objects, "S" holds one object (a stack or a large object).
LevelShapes == {<<>>, <<"S">>, <<"M", "S">>}

FromChunk(kind) == HHChunk(kind = "M", 1, 1, <<1>>)

ChunkId(level, k) == 2 * level + k

Range(list) == {list[k] : k \in DOMAIN list}

InitChunks ==
  /\ InitWith(CAP) /\ data[0] = BOGUS_OBJPTR
  /\ wk = NoWeaks /\ ea = NoAssure
  /\ \E currentDepth \in 1 .. MaxChunkDepth :
       \E minLevel \in 1 .. currentDepth :
         \E shape \in [0 .. currentDepth -> LevelShapes] :
           LET levels == [l \in 0 .. currentDepth |->
                            [k \in 1 .. Len(shape[l]) |-> ChunkId(l, k)]]
           IN /\ obj = [c \in UNION {Range(levels[l]) : l \in 0 .. currentDepth}
                          |-> FromChunk(shape[(c - 1) \div 2][((c - 1) % 2) + 1])]
              /\ toSpace = [l \in 0 .. currentDepth |-> NULL]
              /\ gs = [currentDepth |-> currentDepth, levels |-> levels,
                       freeListSmall |-> <<>>,
                       lastAllocatedChunk |-> NullChunk]
              /\ cl = [pc |-> "forward",
                       args |-> [minLevel |-> minLevel,
                                 maxLevel |-> currentDepth],
                       copies |-> 0, relocated |-> {}, pre |-> levels]

\* What a forwardHHObjptr call works on: the chunks, the target list and its
\* level, the chunk copyObject put the object in, and whether DIE was called.
Frame(level, list) ==
  [obj |-> obj, level |-> level, list |-> list, placed |-> NullChunk,
   die |-> FALSE]

\* F applied to each outcome of S in which DIE was not called.
Then(S, F(_)) == UNION {IF t.die THEN {t} ELSE F(t) : t \in S}

\* The address of the next chunk made for the list: one no chunk has.
FreshId(T) == 2 * (MaxChunkDepth + 1) + 32 * T.level + Len(T.list) + 1

\* HM_allocateChunk(list, bytes): NULL, or a fresh chunk with at least
\* `bytes` bytes of room, which may hold several objects, made the last chunk
\* of the list.
HM_allocateChunk(T, bytes) ==
  {[T EXCEPT !.die = TRUE]} \cup
  {[T EXCEPT !.obj = (FreshId(T) :> HHChunk(TRUE, room, 0, <<>>)) @@ @,
             !.list = Append(@, FreshId(T))] : room \in {bytes, MaxBytes}}

HM_getChunkListLastChunk(list) ==
  IF list = NULL THEN NullChunk ELSE list[Len(list)]

HM_unlinkChunk_keep(list, chunk) == list

HM_unlinkChunk(list, chunk) == SelectSeq(list, LAMBDA c : c # chunk)

HM_appendChunk(list, chunk) == Append(list, chunk)

HM_appendChunkList(list, other) == list \o other

\* The chunk after copyObject has put an object of objectSize bytes at its
\* frontier: HM_updateChunkValues(chunk, frontier + objectSize).
Placed_copySize(chunk, objectSize, copySize) ==
  {[c EXCEPT !.objects = Append(@, objectSize), !.used = @ + copySize,
             !.room = chunk.room - copySize] :
     c \in Allocated(chunk, objectSize)}

Placed(chunk, objectSize, copySize) ==
  {[c EXCEPT !.objects = Append(@, objectSize), !.used = @ + objectSize] :
     c \in Allocated(chunk, objectSize)}

\* copyObject(p, objectSize, copySize, tgtChunkList).
copyObject(T, objectSize, copySize) ==
  LET last == HM_getChunkListLastChunk(T.list)
      mustExtend == \/ T.obj[last].room < objectSize
                    \/ ~T.obj[last].firstBlock
      Place(t) ==
        LET chunk == HM_getChunkListLastChunk(t.list)
        IN {[t EXCEPT !.obj[chunk] = after, !.placed = chunk] :
              after \in Placed(t.obj[chunk], objectSize, copySize)}
      Trail(t) ==
        IF ~t.obj[t.placed].firstBlock
          THEN HM_allocateChunk(t, GC_HEAP_LIMIT_SLOP)
          ELSE {t}
  IN Then(Then(IF mustExtend THEN HM_allocateChunk(T, objectSize) ELSE {T},
               Place),
          Trail)

allocateFreshLast_none(T) == {T}

\* forwardHHObjptr, after HM_appendChunk(tgtChunkList, chunk):
\* HM_allocateChunk(tgtChunkList, GC_HEAP_LIMIT_SLOP), or DIE.
allocateFreshLast(T) == HM_allocateChunk(T, GC_HEAP_LIMIT_SLOP)

\* forwardHHObjptr: the to-space list of the level is made, with a first
\* chunk, when the level has none.
TargetList(T, objectBytes) ==
  IF T.list = NULL THEN HM_allocateChunk(T, objectBytes) ELSE {T}

InScope(level) == cl.args.minLevel <= level /\ level <= cl.args.maxLevel

\* The number of objects forwarded so far.
Forwards == cl.copies + Cardinality(cl.relocated)

\* DIE, or the end of a forwardHHObjptr call that forwarded an object of
\* level `level`.
EndForward(level, t, levels, copies, relocated) ==
  IF t.die
    THEN /\ dead' = TRUE
         /\ cl' = [cl EXCEPT !.pc = "dead"]
         /\ UNCHANGED <<obj, toSpace, gs>>
    ELSE /\ obj' = t.obj
         /\ toSpace' = [toSpace EXCEPT ![level] = t.list]
         /\ gs' = [gs EXCEPT !.levels = levels]
         /\ cl' = [cl EXCEPT !.copies = copies, !.relocated = relocated]
         /\ UNCHANGED dead

\* forwardHHObjptr on an object of objectBytes bytes in a chunk that may hold
\* several objects: the object is copied.
forwardHHObjptr_copy ==
  /\ ~dead /\ cl.pc = "forward" /\ Forwards < MaxForwards
  /\ \E level \in 0 .. gs.currentDepth, objectBytes \in 1 .. MaxBytes :
       \E copyBytes \in 1 .. objectBytes :
         /\ InScope(level)
         /\ \E c \in Range(gs.levels[level]) :
              obj[c].mightContainMultipleObjects
         /\ \E t \in Then(TargetList(Frame(level, toSpace[level]),
                                          objectBytes),
                          LAMBDA u : copyObject(u, objectBytes, copyBytes)) :
              EndForward(level, t, gs.levels, cl.copies + 1, cl.relocated)
  /\ UNCHANGED <<top, bot, data, len, ow, th, ghost, wk, ea>>

\* forwardHHObjptr on the object of a single-object chunk: the chunk is
\* unlinked from its level and appended to the to-space list, and a fresh
\* chunk is allocated after it.
forwardHHObjptr_move ==
  /\ ~dead /\ cl.pc = "forward" /\ Forwards < MaxForwards
  /\ \E level \in 0 .. gs.currentDepth :
       \E chunk \in Range(gs.levels[level]) :
         /\ InScope(level)
         /\ ~obj[chunk].mightContainMultipleObjects
         /\ \E t \in Then(TargetList(Frame(level, toSpace[level]),
                                     obj[chunk].objects[1]),
                          LAMBDA u :
                            allocateFreshLast(
                              [u EXCEPT !.list = HM_appendChunk(@, chunk)])) :
              EndForward(level, t,
                        [gs.levels EXCEPT
                           ![level] = HM_unlinkChunk(@, chunk)],
                        cl.copies, cl.relocated \cup {chunk})
  /\ UNCHANGED <<top, bot, data, len, ow, th, ghost, wk, ea>>

RECURSIVE LevelsChunks(_, _, _)
\* The chunks of the levels lo .. hi, in the order of the levels.
LevelsChunks(levels, lo, hi) ==
  IF lo > hi THEN <<>>
  ELSE levels[lo] \o LevelsChunks(levels, lo + 1, hi)

\* "Free old chunks": each level of the scope is appended to
\* s->freeListSmall and HM_HH_LEVEL(hh, i) is set to NULL.
collectLocal_freeOld ==
  /\ ~dead /\ cl.pc = "forward"
  /\ gs' = [gs EXCEPT
              !.freeListSmall =
                 HM_appendChunkList(@, LevelsChunks(gs.levels,
                                                    cl.args.minLevel,
                                                    gs.currentDepth)),
              !.levels = [l \in DOMAIN @ |->
                            IF cl.args.minLevel <= l THEN NULL ELSE @[l]]]
  /\ cl' = [cl EXCEPT !.pc = "merge"]
  /\ UNCHANGED <<shared, ow, th, ghost, obj, toSpace, wk, ea>>

\* "merge in toSpace": a level that is NULL becomes toSpace[i]; toSpace[i]
\* is appended to any other.
collectLocal_mergeToSpace ==
  /\ ~dead /\ cl.pc = "merge"
  /\ gs' = [gs EXCEPT
              !.levels = [l \in DOMAIN @ |->
                            IF @[l] = NULL THEN toSpace[l]
                            ELSE HM_appendChunkList(@[l], toSpace[l])]]
  /\ cl' = [cl EXCEPT !.pc = "repair"]
  /\ UNCHANGED <<shared, ow, th, ghost, obj, toSpace, wk, ea>>

DeepestLastChunk_shallowest(levels) ==
  LET nonEmpty == {l \in DOMAIN levels : levels[l] # NULL}
  IN IF nonEmpty = {} THEN NullChunk
     ELSE HM_getChunkListLastChunk(
            levels[CHOOSE l \in nonEmpty : \A m \in nonEmpty : l <= m])

\* The last chunk of the deepest level in 0 .. currentDepth that has one.
DeepestLastChunk(levels) ==
  LET nonEmpty == {l \in DOMAIN levels : levels[l] # NULL}
  IN IF nonEmpty = {} THEN NullChunk
     ELSE HM_getChunkListLastChunk(
            levels[CHOOSE l \in nonEmpty : \A m \in nonEmpty : m <= l])

\* "update lastAllocatedChunk and associated": HM_HH_extend(thread,
\* GC_HEAP_LIMIT_SLOP) puts a fresh chunk at the end of the level of the
\* current depth and makes it hh->lastAllocatedChunk.
collectLocal_lastAllocatedChunk ==
  /\ ~dead /\ cl.pc = "repair"
  /\ LET lastChunk == DeepestLastChunk(gs.levels)
     IN IF lastChunk # NullChunk /\ ~obj[lastChunk].mightContainMultipleObjects
          THEN \E t \in HM_allocateChunk(Frame(gs.currentDepth,
                                               gs.levels[gs.currentDepth]),
                                         GC_HEAP_LIMIT_SLOP) :
                 IF t.die
                   THEN /\ dead' = TRUE
                        /\ cl' = [cl EXCEPT !.pc = "dead"]
                        /\ UNCHANGED <<obj, gs>>
                   ELSE /\ obj' = t.obj
                        /\ gs' = [gs EXCEPT
                                    !.levels[gs.currentDepth] = t.list,
                                    !.lastAllocatedChunk =
                                       HM_getChunkListLastChunk(t.list)]
                        /\ cl' = [cl EXCEPT !.pc = "done"]
                        /\ UNCHANGED dead
          ELSE /\ gs' = [gs EXCEPT !.lastAllocatedChunk = lastChunk]
               /\ cl' = [cl EXCEPT !.pc = "done"]
               /\ UNCHANGED <<obj, dead>>
  /\ UNCHANGED <<top, bot, data, len, ow, th, ghost, toSpace, wk, ea>>

NextChunks ==
  \/ forwardHHObjptr_copy
  \/ forwardHHObjptr_move
  \/ collectLocal_freeOld
  \/ collectLocal_mergeToSpace
  \/ collectLocal_lastAllocatedChunk

SpecChunks == InitChunks /\ [][NextChunks]_vars

\* HM_HHC_collectLocal has returned.
Collected == cl.pc = "done"

\* The chunks of every chunk list: the levels of the heap, then the free
\* list.
AllLists ==
  LevelsChunks(gs.levels, 0, gs.currentDepth) \o gs.freeListSmall

Occurrences(list, chunk) ==
  Cardinality({k \in DOMAIN list : list[k] = chunk})

\* The number of objects in the chunks of the levels of the scope.
ObjectsInScope ==
  LET held == LevelsChunks(gs.levels, cl.args.minLevel, gs.currentDepth)
  IN Sum([k \in DOMAIN held |-> Len(obj[held[k]].objects)], DOMAIN held)

\* What C33 says of the chunks other than "level i is exactly toSpace[i]":
\* every chunk is in exactly one list, the levels of the scope hold the
\* objects that were forwarded and no other, the chunks those levels held
\* before are in the free list unless they were relinked, and the levels
\* below the scope hold the chunks they held before.
ChunksAccounted ==
  /\ \A c \in DOMAIN obj : Occurrences(AllLists, c) = 1
  /\ ObjectsInScope = Forwards
  /\ \A l \in DOMAIN gs.levels :
       IF InScope(l)
         THEN /\ \A c \in Range(cl.pre[l]) \ cl.relocated :
                   c \in Range(gs.freeListSmall)
              /\ \A c \in Range(cl.pre[l]) \cap cl.relocated :
                   ~obj[c].mightContainMultipleObjects
                   /\ c \in Range(gs.levels[l])
         ELSE gs.levels[l] = cl.pre[l]

\* C33 as stated: after a completed HM_HHC_collectLocal every chunk is in
\* exactly one chunk list; each level i of [minLevel, currentDepth] is
\* exactly toSpace[i] (absent when nothing of the level survived) and holds
\* only forwarded objects; every chunk those levels held before, other than
\* the relinked single-object chunks, is in the free list; the levels below
\* minLevel keep their chunks.
C33_LevelsAfter_AsStated ==
  Collected =>
    /\ ChunksAccounted
    /\ \A l \in DOMAIN gs.levels : InScope(l) => gs.levels[l] = toSpace[l]

\* C33: after a completed HM_HHC_collectLocal every chunk is in exactly one
\* chunk list; each level i of [minLevel, currentDepth] is exactly
\* toSpace[i] (absent when nothing of the level survived), except that the
\* level of the current depth also ends with the fresh, empty chunk of
\* HM_HH_extend when nothing of the scope survived and the last chunk below
\* the scope holds a single object; those levels hold only forwarded
\* objects; every chunk they held before, other than the relinked
\* single-object chunks, is in the free list; the levels below minLevel keep
\* their chunks.
C33_LevelsAfter ==
  Collected =>
    /\ ChunksAccounted
    /\ \A l \in DOMAIN gs.levels :
         InScope(l) =>
           \/ gs.levels[l] = toSpace[l]
           \/ /\ l = gs.currentDepth
              /\ \A m \in DOMAIN toSpace : toSpace[m] = NULL
              /\ gs.levels[l] = <<gs.lastAllocatedChunk>>
              /\ obj[gs.lastAllocatedChunk].objects = <<>>
              /\ ~obj[DeepestLastChunk(cl.pre)].mightContainMultipleObjects

\* A collection that copied objects, relinked a single-object chunk and
\* freed chunks has returned.
C33_Witness ==
  /\ Collected
  /\ cl.copies >= 1 /\ cl.relocated # {}
  /\ gs.freeListSmall # <<>>
  /\ \E l \in DOMAIN gs.levels : ~InScope(l) /\ gs.levels[l] # NULL

\* The chunks forwardHHObjptr has relinked to the to-space list `list`, each
\* with the chunks that follow it in the list.
RelinkedIn(list) == {k \in DOMAIN list : list[k] \in cl.relocated}

\* C34: throughout HM_HHC_collectLocal a chunk whose
\* mightContainMultipleObjects is FALSE holds exactly one object: each
\* single-object chunk relinked to a to-space list is followed in the list by
\* a fresh chunk, the last chunk of a to-space list may hold several objects,
\* and no step writes into a relinked chunk.
C34_SingleObjectChunks ==
  /\ [](\A c \in DOMAIN obj :
          ~obj[c].mightContainMultipleObjects =>
             Len(obj[c].objects) = 1 /\ obj[c].used = 1)
  /\ [](\A l \in DOMAIN toSpace :
          /\ toSpace[l] # NULL =>
               obj[HM_getChunkListLastChunk(toSpace[l])]
                  .mightContainMultipleObjects
          /\ \A k \in RelinkedIn(toSpace[l]) :
               /\ k < Len(toSpace[l])
               /\ toSpace[l][k + 1] \notin UNION {Range(cl.pre[m]) :
                                                    m \in DOMAIN cl.pre})
  /\ [][\A c \in cl.relocated : obj'[c] = obj[c]]_vars

\* An object was copied into a to-space list after a single-object chunk was
\* relinked to it.
C34_Witness ==
  \E l \in DOMAIN toSpace :
    \E k \in RelinkedIn(toSpace[l]) :
      \E j \in DOMAIN toSpace[l] :
        j > k /\ obj[toSpace[l][j]].objects # <<>>

\* The objects the chunk held before the step (none when the step made it).
ObjectsBefore(c) == IF c \in DOMAIN obj THEN obj[c].objects ELSE <<>>

\* C35: every copyObject call puts the object at a frontier that is in the
\* first block of a chunk of the target list with at least objectSize bytes
\* left, and moves that frontier by objectSize, so that the objects of a
\* chunk lie one after the other below its frontier and its limit; on return
\* the frontier of the last chunk of the target list is in the first block of
\* that chunk.
C35_CopyObjectPlacement ==
  /\ [][cl'.copies = cl.copies + 1 =>
          \E l \in DOMAIN toSpace :
            \E c \in Range(toSpace'[l]) :
              LET objectSize == obj'[c].objects[Len(obj'[c].objects)]
              IN /\ InScope(l)
                 /\ obj'[c].objects # <<>>
                 /\ obj'[c].objects = Append(ObjectsBefore(c), objectSize)
                 /\ \A d \in DOMAIN obj' \ {c} :
                      obj'[d].objects = ObjectsBefore(d)
                 /\ IF c \in DOMAIN obj
                      THEN /\ c = HM_getChunkListLastChunk(toSpace[l])
                           /\ obj[c].firstBlock
                           /\ obj[c].room >= objectSize
                           /\ obj'[c].used = obj[c].used + objectSize
                           /\ obj'[c].room = obj[c].room - objectSize
                      ELSE /\ obj'[c].used = objectSize
                           /\ obj'[c].room >= 0
                 /\ obj'[HM_getChunkListLastChunk(toSpace'[l])].firstBlock]_vars
  /\ [](\A c \in DOMAIN obj :
          /\ obj[c].room >= 0
          /\ Sum(obj[c].objects, DOMAIN obj[c].objects) = obj[c].used)
  /\ [](\A l \in DOMAIN toSpace :
          toSpace[l] # NULL =>
            obj[HM_getChunkListLastChunk(toSpace[l])].firstBlock)

\* A chunk of a to-space list holds two copied objects, and a copy that
\* reached the end of the first block was followed by a fresh chunk.
C35_Witness ==
  \E l \in DOMAIN toSpace :
    /\ \E c \in Range(toSpace[l]) : Len(obj[c].objects) >= 2
    /\ \E c \in Range(toSpace[l]) :
         obj[c].objects # <<>> /\ ~obj[c].firstBlock

\* The levels of the heap that hold a chunk.
NonEmptyLevels == {l \in DOMAIN gs.levels : gs.levels[l] # NULL}

\* The chunk the walk of the levels finds when the collection forwarded
\* nothing: the last chunk of the deepest level below the scope that has one.
FoundBelow ==
  DeepestLastChunk([l \in DOMAIN cl.pre |->
                      IF InScope(l) THEN NULL ELSE cl.pre[l]])

\* C36: after a completed HM_HHC_collectLocal, hh->lastAllocatedChunk is
\* NULL exactly when no level of [0, currentDepth] has a chunk; otherwise it
\* is the last chunk of the deepest level that has one and may hold several
\* objects, the heap having been extended when the chunk found was a
\* single-object chunk.
C36_LastAllocatedChunk ==
  Collected =>
    /\ (gs.lastAllocatedChunk = NullChunk) <=> (NonEmptyLevels = {})
    /\ (gs.lastAllocatedChunk # NullChunk) =>
         /\ gs.lastAllocatedChunk = DeepestLastChunk(gs.levels)
         /\ \A l \in NonEmptyLevels :
              gs.lastAllocatedChunk \in Range(gs.levels[l]) =>
                \A m \in NonEmptyLevels : m <= l
         /\ obj[gs.lastAllocatedChunk].mightContainMultipleObjects
    /\ (Forwards = 0 /\ FoundBelow # NullChunk) =>
         IF obj[FoundBelow].mightContainMultipleObjects
           THEN gs.lastAllocatedChunk = FoundBelow
           ELSE /\ gs.levels[gs.currentDepth] = <<gs.lastAllocatedChunk>>
                /\ gs.lastAllocatedChunk \notin
                     UNION {Range(cl.pre[l]) : l \in DOMAIN cl.pre}
                /\ obj[gs.lastAllocatedChunk].room >= GC_HEAP_LIMIT_SLOP

\* The collection freed every level of its scope, found a single-object
\* chunk below the scope and extended the heap.
C36_Witness ==
  /\ Collected
  /\ gs.levels[gs.currentDepth] = <<gs.lastAllocatedChunk>>
  /\ obj[gs.lastAllocatedChunk].objects = <<>>
  /\ gs.freeListSmall # <<>>

----------------------------------------------------------------------------
\* SpecEnsureCollect: HM_ensureHierarchicalHeapAssurances together with the
\* entry of the HM_HHC_collectLocal it calls.  cl is the frame of the callee:
\* its parameters desiredScope and force, thread->currentDepth, whether the
\* collection is enabled and the deque registered, and how the call ended.
\* The call of local-heap.c passes desiredScope only; the function has a
\* second parameter, force, whose value in the callee is then whatever the
\* build leaves in its place.

CalleeIdle(currentDepth, enabled) ==
  [pc |-> "idle", desiredScope |-> 0, force |-> FALSE,
   currentDepth |-> currentDepth, enabled |-> enabled, skipped |-> "no"]

InitEnsureCollect ==
  \E currentDepth \in 0 .. MaxLevel, enabled \in BOOLEAN :
    InitAssureWith(CalleeIdle(currentDepth, enabled))

SecondArgument_forceGC(forceGC) == {forceGC}

\* The values the parameter `force` may have in HM_HHC_collectLocal when the
\* caller passed one argument.
SecondArgument(forceGC) == BOOLEAN

\* HM_HHC_collectLocal(desiredScope);
ensure_callCollectLocal ==
  /\ ~dead /\ ea.pc = "collect" /\ cl.pc = "idle"
  /\ \E force \in SecondArgument(ea.forceGC) :
       cl' = [cl EXCEPT !.pc = "entry", !.desiredScope = ea.desiredScope,
                        !.force = force]
  /\ UNCHANGED <<shared, ow, th, ghost, obj, toSpace, gs, wk, ea>>

\* The early returns of HM_HHC_collectLocal (collection disabled, deque not
\* registered, not forced in the sequential section), or the rest of the
\* call.
collectLocal_entry ==
  /\ ~dead /\ cl.pc = "entry"
  /\ cl' = [cl EXCEPT !.pc = "returned",
                      !.skipped = IF ~cl.enabled THEN "disabled"
                                  ELSE IF ~cl.force /\ cl.currentDepth <= 1
                                         THEN "sequential"
                                         ELSE "no"]
  /\ UNCHANGED <<shared, ow, th, ghost, obj, toSpace, gs, wk, ea>>

\* After the call: the frontier is republished from hh->lastAllocatedChunk,
\* which a call that returned early has left alone.
ensure_republish ==
  /\ ~dead /\ ea.pc = "collect" /\ cl.pc = "returned"
  /\ \E chunk \in IF cl.skipped # "no" THEN {ea.lastAllocatedChunk}
                  ELSE {ea.lastAllocatedChunk, NoChunk}
                         \cup MultiChunks(ea.level) :
       ea' = [Republish(ea, chunk) EXCEPT !.pc = "grow", !.collected = TRUE]
  /\ cl' = [cl EXCEPT !.pc = "done"]
  /\ UNCHANGED <<shared, ow, th, ghost, obj, toSpace, gs, wk>>

NextEnsureCollect ==
  \/ ensure_enter
  \/ ensure_callCollectLocal
  \/ collectLocal_entry
  \/ ensure_republish
  \/ ensure_growStack
  \/ ensure_final

SpecEnsureCollect == InitEnsureCollect /\ [][NextEnsureCollect]_vars

\* HM_HHC_collectLocal has been called.
Called == cl.pc # "idle"

\* C37: HM_ensureHierarchicalHeapAssurances calls
\* HM_HHC_collectLocal(desiredScope, forceGC) exactly when forceGC holds or
\* desiredScope <= hh->level, so that a forced request is not skipped for
\* currentDepth <= 1; after the call the frontier is republished from
\* hh->lastAllocatedChunk, and when the collection left no chunk the heap is
\* extended before the return, so that the frontier is not NULL on return.
C37_ForcedCollection ==
  /\ Called => /\ ea.forceGC \/ ea.desiredScope <= ea.level
               /\ cl.desiredScope = ea.desiredScope
               /\ cl.force = ea.forceGC
  /\ (ea.pc \in {"grow", "final", "done"}
      /\ (ea.forceGC \/ ea.desiredScope <= ea.level)) => Called
  /\ (cl.pc \in {"returned", "done"} /\ ea.forceGC /\ cl.enabled) =>
       cl.skipped = "no"
  /\ ea.pc = "grow" /\ Called =>
       /\ ea.frontierNull = ea.lastAllocatedChunk.null
       /\ ea.free = ea.lastAllocatedChunk.room
  /\ ea.pc = "done" => ~ea.frontierNull

\* What holds of C37 whatever the callee reads as `force`: when the call is
\* made, what is republished, and the frontier on return.
EnsureCallAndRepublish ==
  /\ Called => /\ ea.forceGC \/ ea.desiredScope <= ea.level
               /\ cl.desiredScope = ea.desiredScope
  /\ (ea.pc \in {"grow", "final", "done"}
      /\ (ea.forceGC \/ ea.desiredScope <= ea.level)) => Called
  /\ (cl.pc \in {"returned", "done"} /\ cl.force /\ cl.enabled) =>
       cl.skipped = "no"
  /\ ea.pc = "grow" /\ Called =>
       /\ ea.frontierNull = ea.lastAllocatedChunk.null
       /\ ea.free = ea.lastAllocatedChunk.room
  /\ ea.pc = "done" => ~ea.frontierNull

----------------------------------------------------------------------------
\* SpecLength: the deque on a data array whose length is not CAP.  len is
\* getSequenceLength(data): ShortLength slots, or LongLength slots.  The
\* slots 0 .. CAP-1 of `data` are the memory at data + i: with len < CAP the
\* slots from len on lie beyond the array.  Calls run one at a time: the
\* owner pushes and pops, thieves take from the top.

ShortLength == 4
LongLength == 66

InitLength ==
  /\ \E n \in {ShortLength, LongLength} : InitWith(n)
  /\ NoCollector

NextLength ==
  \/ NextFull
  \/ /\ ThievesIdle /\ 0 < bot /\ Taken(MaxStealFull)
     /\ tryPopBot_loadBot
  \/ PopBotSteps

SpecLength == InitLength /\ [][NextLength]_vars

\* The indices in [top, bot) whose element is in the slot that index i uses.
LiveInSlotOf(i) == {j \in top .. bot - 1 : Slot(j) = Slot(i)}

\* C38: for a data array of length L every slot index that pushBot,
\* tryPopBot and tryPopTop read or write is below L, and pushBot does not
\* store into a slot that holds an element with an index in [top, bot): the
\* length the fullness test uses and the modulus CAP of the indexing agree
\* for L = 4 and for L > 64.
C38_IndicesWithinLength ==
  /\ ow.pc \in {"push_storeData", "pop_loadData"} => Slot(ow.local_bot) < len
  /\ \A t \in Thieves :
       th[t].pc = "steal_loadData" => Slot(th[t].local_top) < len
  /\ ow.pc = "push_storeData" => LiveInSlotOf(ow.local_bot) = {}

\* The same for an array of CAP slots.
IndicesWithinCAP == len = CAP => C38_IndicesWithinLength

\* On the array of LongLength slots a push is about to store into a slot
\* whose element has not been taken.
OverwritesLive ==
  /\ len = LongLength
  /\ ow.pc = "push_storeData" /\ LiveInSlotOf(ow.local_bot) # {}

----------------------------------------------------------------------------
\* SpecCheney: majorCheneyCopyGC.  Here wk is the state the function works
\* on: s->heap and s->secondaryHeap (start, size, oldGenSize), s->forwardState
\* (toStart, toLimit, back), the local toStart, the globals, and the memory
\* of both heaps (the object at each address an object starts at: header,
\* size and one pointer slot, whose word holds the forwarding pointer once
\* the header is GC_FORWARDED).  Addresses and sizes are in units of the
\* alignment; alignFrontier rounds up to an even address.  The old
\* generation of the heap holds n objects laid one after the other from
\* alignFrontier(start), the nursery is empty (a minor collection has run),
\* and there is no weak object.  forwardObjptr, foreachGlobalObjptr and
\* foreachObjptrInRange are known by their interfaces.

MaxCheneyObjects == 3
MaxGlobals == 2

alignFrontier(p) == p + (p % 2)

SizeOf(k) == 1 + (k % 2)

RECURSIVE FromAddr(_, _)
\* Where the k-th object of the old generation starts.
FromAddr(start, k) ==
  IF k = 1 THEN alignFrontier(start)
  ELSE FromAddr(start, k - 1) + SizeOf(k - 1)

InitCheney ==
  /\ InitWith(CAP) /\ data[0] = BOGUS_OBJPTR
  /\ obj = <<>> /\ toSpace = <<>> /\ gs = NoState /\ cl = IdleCollect
  /\ ea = NoAssure
  /\ \E offset \in 0 .. 1, room \in 0 .. 1, n \in 0 .. MaxCheneyObjects :
       \E field \in [1 .. n -> 0 .. n], global \in [1 .. MaxGlobals -> 0 .. n] :
         LET start == 2 + offset
             At(k) == IF k = 0 THEN 0 ELSE FromAddr(start, k)
             heap == [start |-> start,
                      size |-> FromAddr(start, n + 1) - start + 1,
                      oldGenSize |-> FromAddr(start, n + 1) - start]
             secondaryHeap == [start |-> start + 16,
                               size |-> heap.oldGenSize + room,
                               oldGenSize |-> 0]
             mem == [a \in {At(k) : k \in 1 .. n} |->
                       LET k == CHOOSE j \in 1 .. n : At(j) = a
                       IN [header |-> "GC_NORMAL_HEADER", size |-> SizeOf(k),
                           field |-> At(field[k])]]
             globals == [i \in 1 .. MaxGlobals |-> At(global[i])]
         IN wk = [pc |-> "call", heap |-> heap,
                  secondaryHeap |-> secondaryHeap,
                  forwardState |-> [toStart |-> 0, toLimit |-> 0, back |-> 0],
                  toStart |-> 0, mem |-> mem, globals |-> globals,
                  g |-> 0, scan |-> 0, back0 |-> 0,
                  pre |-> [heap |-> heap, secondaryHeap |-> secondaryHeap,
                           mem |-> mem, globals |-> globals]]

\* forwardObjptr(s, &op) with s->forwardState.back == back: the memory, back
\* and the word afterwards.  An object that is not forwarded yet is copied
\* to back, its header becomes GC_FORWARDED and its first word the address of
\* the copy.
forwardObjptr(mem, back, op) ==
  IF op = 0 THEN [mem |-> mem, back |-> back, op |-> op]
  ELSE IF Forwarded(mem[op].header)
    THEN [mem |-> mem, back |-> back, op |-> mem[op].field]
    ELSE [mem |-> (back :> mem[op])
                    @@ [mem EXCEPT ![op].header = "GC_FORWARDED",
                                   ![op].field = back],
          back |-> back + mem[op].size, op |-> back]

\* From the entry to 's->forwardState.back = toStart'.
majorCheneyCopyGC_begin ==
  /\ wk.pc = "call"
  /\ LET toStart == alignFrontier(wk.secondaryHeap.start)
     IN wk' = [wk EXCEPT
                 !.pc = "globals",
                 !.forwardState =
                    [toStart |-> wk.secondaryHeap.start,
                     toLimit |-> wk.secondaryHeap.start + wk.secondaryHeap.size,
                     back |-> toStart],
                 !.toStart = toStart, !.g = 1]
  /\ UNCHANGED <<shared, ow, th, ghost, heapVars, ea>>

\* foreachGlobalObjptr (s, forwardObjptr): one global.
majorCheneyCopyGC_global ==
  /\ wk.pc = "globals" /\ wk.g <= MaxGlobals
  /\ LET f == forwardObjptr(wk.mem, wk.forwardState.back, wk.globals[wk.g])
     IN wk' = [wk EXCEPT !.mem = f.mem, !.forwardState.back = f.back,
                         !.globals[wk.g] = f.op, !.g = @ + 1]
  /\ UNCHANGED <<shared, ow, th, ghost, heapVars, ea>>

\* The call foreachObjptrInRange (s, toStart, &s->forwardState.back, ...).
majorCheneyCopyGC_range ==
  /\ wk.pc = "globals" /\ wk.g > MaxGlobals
  /\ wk' = [wk EXCEPT !.pc = "scan", !.scan = wk.toStart,
                      !.back0 = wk.forwardState.back]
  /\ UNCHANGED <<shared, ow, th, ghost, heapVars, ea>>

\* A scan whose end is the value back had when the scan began.
ScanLimit_byValue(forwardState, back0) == back0

\* The end of the scan: *back, read again at each object.
ScanLimit(forwardState, back0) == forwardState.back

\* foreachObjptrInRange: the object at the scan pointer.
majorCheneyCopyGC_scan ==
  /\ wk.pc = "scan" /\ wk.scan < ScanLimit(wk.forwardState, wk.back0)
  /\ LET f == forwardObjptr(wk.mem, wk.forwardState.back,
                            wk.mem[wk.scan].field)
     IN wk' = [wk EXCEPT !.mem = [f.mem EXCEPT ![wk.scan].field = f.op],
                         !.forwardState.back = f.back,
                         !.scan = @ + wk.mem[wk.scan].size]
  /\ UNCHANGED <<shared, ow, th, ghost, heapVars, ea>>

\* swapHeapsForCheneyCopy
swapHeapsForCheneyCopy(w) ==
  [w EXCEPT !.secondaryHeap = w.heap, !.heap = w.secondaryHeap]

\* After the scan: updateWeaksForCheneyCopy (s->weaks is NULL),
\* s->secondaryHeap->oldGenSize = back - s->secondaryHeap->start, and
\* swapHeapsForCheneyCopy.
majorCheneyCopyGC_finish ==
  /\ wk.pc = "scan" /\ wk.scan >= ScanLimit(wk.forwardState, wk.back0)
  /\ wk' = swapHeapsForCheneyCopy(
             [wk EXCEPT !.pc = "done",
                        !.secondaryHeap.oldGenSize =
                           wk.forwardState.back - wk.secondaryHeap.start])
  /\ UNCHANGED <<shared, ow, th, ghost, heapVars, ea>>

NextCheney ==
  \/ majorCheneyCopyGC_begin
  \/ majorCheneyCopyGC_global
  \/ majorCheneyCopyGC_range
  \/ majorCheneyCopyGC_scan
  \/ majorCheneyCopyGC_finish

SpecCheney == InitCheney /\ [][NextCheney]_vars

RECURSIVE ReachFrom(_, _)
\* The objects of `mem` that the objects of S reach through pointer slots.
ReachFrom(mem, S) ==
  LET next == S \cup ({mem[a].field : a \in S} \ {0})
  IN IF next = S THEN S ELSE ReachFrom(mem, next)

GlobalsReach(mem, globals) ==
  ReachFrom(mem, {globals[i] : i \in DOMAIN globals} \ {0})

InHeap(heap, a) == heap.start <= a /\ a < heap.start + heap.size

\* C39: after majorCheneyCopyGC, given secondaryHeap.size >= heap.oldGenSize
\* on entry, the heap and the secondary heap have exchanged roles, the
\* oldGenSize of the new heap is back minus its start, back <= toLimit, and
\* every object reachable from the globals lies in [toStart, back), with
\* every pointer slot referring into that range and none into the old heap;
\* the reachable objects are the copies of the objects reachable before, one
\* after the other from toStart.
C39_MajorCheneyCopy ==
  /\ wk.forwardState.back <= wk.forwardState.toLimit
  /\ wk.pc = "done" =>
       LET live == GlobalsReach(wk.mem, wk.globals)
           before == GlobalsReach(wk.pre.mem, wk.pre.globals)
           toStart == alignFrontier(wk.heap.start)
           back == wk.forwardState.back
           ToSpace(a) == toStart <= a /\ a < back
       IN /\ wk.heap.start = wk.pre.secondaryHeap.start
          /\ wk.heap.size = wk.pre.secondaryHeap.size
          /\ wk.secondaryHeap = wk.pre.heap
          /\ wk.heap.oldGenSize = back - wk.heap.start
          /\ \A i \in DOMAIN wk.globals :
               wk.globals[i] = 0 <=> wk.pre.globals[i] = 0
          /\ \A a \in live :
               /\ ToSpace(a) /\ a + wk.mem[a].size <= back
               /\ ~InHeap(wk.secondaryHeap, a)
               /\ ~Forwarded(wk.mem[a].header)
               /\ wk.mem[a].field # 0 =>
                    /\ ToSpace(wk.mem[a].field)
                    /\ wk.mem[a].field \in DOMAIN wk.mem
                    /\ ~InHeap(wk.secondaryHeap, wk.mem[a].field)
          /\ Cardinality(live) = Cardinality(before)
          /\ back - toStart =
               Sum([a \in before |-> wk.pre.mem[a].size], before)
          /\ \A a \in before :
               /\ Forwarded(wk.mem[a].header)
               /\ wk.mem[a].field \in live
               /\ wk.mem[wk.mem[a].field].size = wk.pre.mem[a].size
               /\ wk.pre.mem[a].field # 0 =>
                    wk.mem[wk.mem[a].field].field
                      = wk.mem[wk.pre.mem[a].field].field

\* A collection that filled the secondary heap to its limit has returned:
\* every object was live, an object with two references was copied once and
\* an object was found by the scan only.
C39_Witness ==
  /\ wk.pc = "done"
  /\ wk.forwardState.back = wk.forwardState.toLimit
  /\ alignFrontier(wk.heap.start) # wk.heap.start
  /\ wk.globals[1] # 0 /\ wk.globals[1] = wk.globals[2]
  /\ wk.mem[wk.globals[1]].field \notin {0, wk.globals[1]}

====
